---- MODULE Spec2Model ----
(***************************************************************************)
(* Model of src/src/service/dynamo.js: the DynamoDB store wrapper          *)
(* (transactWrite with chunking and conflict retry) and DynamoCollection   *)
(* (add / update / remove over a list of access patterns), and of the      *)
(* worker, the migrator and the publish helpers of the application.        *)
(*                                                                         *)
(* The specifications:                                                     *)
(*   Spec    one caller drives a DynamoCollection (add, update, remove);   *)
(*           every batch is within the ceiling and transactWrite is taken  *)
(*           by its outcome (applied as a whole, or failed).               *)
(*   SpecTx  callers run DynamoDB.transactWrite step by step: chunking,    *)
(*           the retry loop, the store's answers.  FairSpecTx adds the     *)
(*           fairness of the event loop.                                   *)
(*   SpecPartial    Spec with entities that lack a field a key names.      *)
(*   SpecCtor       the DynamoCollection constructor on pattern lists.     *)
(*   SpecCursor     toCursor / fromCursor of src/src/util.js on tokens.    *)
(*   SpecQuery      DynamoDB.query page by page over a partition.          *)
(*   SpecFilter     the filter strings of DynamoDB.query.                  *)
(*   SpecScan       DynamoDB.export and DynamoDB.truncate.                 *)
(*   SpecBatch      DynamoDB.putBatch and its chunks.                      *)
(*   SpecPartition  partition on digests and partition counts.             *)
(*   SpecExpression DynamoDB.updateExpression on objects with pk and sk.   *)
(*   SpecMalformed  DynamoDB.query with made-up and damaged cursors.       *)
(*   SpecFilters    DynamoDB.query with lists of filters.                  *)
(*   SpecRetry      one run of the retry loop, requests and waits on       *)
(*                  record.                                                *)
(*   SpecShared     two callers of one collection and store instance.      *)
(*   SpecWorker     src/src/app/worker.js: a failing job and its retries.  *)
(*   SpecMigrator   src/src/app/migrator.js: migrate, call after call.     *)
(*   SpecPublish    publishChange and withSilentPublish on one context.    *)
(***************************************************************************)
EXTENDS Integers, Sequences, FiniteSets, TLC

VARIABLES
  keys,          \* DynamoCollection.keys: the validated access patterns
  entity,        \* the logical entity as the caller holds it: {} or {e}
  store,         \* the table: a set of items, at most one per (pk, sk)
  lastCall,      \* the last collection call: its inputs, batch and outcome
  transactLimit, \* DynamoDB.transactLimit
  batch,         \* per caller: the ops handed to transactWrite
  inv,           \* per caller: the invocations of the retry loop (one per chunk)
  settled,       \* per caller: how the caller's promise settled
  ctor,          \* the last `new DynamoCollection`: its keys argument and outcome
  codec,         \* the last toCursor / fromCursor: token, cursor, decoded token
  pager,         \* a caller following the cursors of query
  filt,          \* the last filter string given to query and what it bound
  scan,          \* the run of export or truncate: loop locals and result
  calc,          \* the last call of partition or updateExpression, the last
                 \* request or wait of a retry loop, the calls of two callers
  job,           \* the job the worker runs and retries, and the queue
  mig,           \* the migrator: recorded migrations and the run in progress
  pub            \* the publishing context and what publishChange delivered

collVars == <<keys, entity, lastCall>>
txVars   == <<batch, inv, settled>>
svcVars  == <<ctor, codec, pager, filt, scan>>
appVars  == <<calc, job, mig, pub>>
vars     ==
  <<keys, entity, store, lastCall, transactLimit, batch, inv, settled,
    ctor, codec, pager, filt, scan, calc, job, mig, pub>>

(***************************************************************************)
(* JavaScript objects are functions from attribute names to values.        *)
(***************************************************************************)
Undefined == "undefined"

EmptyObject == [k \in {} |-> Undefined]

\* { ...a, ...b }
Merge(a, b) ==
  [k \in (DOMAIN a) \cup (DOMAIN b) |-> IF k \in DOMAIN b THEN b[k] ELSE a[k]]

\* object[k], undefined when the property is missing
Prop(object, k) == IF k \in DOMAIN object THEN object[k] ELSE Undefined

Range(s) == {s[i] : i \in 1..Len(s)}

Min(a, b) == IF a < b THEN a ELSE b

\* lodash.isequal on the scalar values of the model
isEqual(a, b) == a = b

\* lodash.isempty on an object
isEmpty(object) == DOMAIN object = {}

(***************************************************************************)
(* The entities, change sets and access patterns the model ranges over.    *)
(***************************************************************************)
FieldOrder == <<"id", "name", "email", "status">>
FieldNames == Range(FieldOrder)

FieldValues ==
  [id     |-> {"1", "2"},
   name   |-> {"Ann", "Bob"},
   email  |-> {"a@x.com", "b@x.com"},
   status |-> {"active", "inactive"}]

Entities ==
  [id : FieldValues.id, name : FieldValues.name,
   email : FieldValues.email, status : FieldValues.status]

AllValues == UNION {FieldValues[f] : f \in FieldNames}

\* the most fields one change set names
MaxChanged == 2

ChangeSets ==
  UNION {{c \in [S -> AllValues] : \A f \in S : c[f] \in FieldValues[f]} :
           S \in {T \in SUBSET FieldNames : Cardinality(T) <= MaxChanged}}

\* the order in which `for (key in object)` visits the attributes
AttrOrder == <<"pk", "sk">> \o FieldOrder \o <<"note">>

Lit(s) == [t |-> "lit", v |-> s]
Fld(f) == [t |-> "field", v |-> f]

\* a `when` function of the configuration, by name
When(name, data) ==
  CASE name = "isActive" -> Prop(data, "status") = "active"
    [] OTHER -> TRUE

PatProfile ==
  [pk |-> <<Lit("user#"), Fld("id")>>, sk |-> <<Lit("profile")>>,
   fieldsDefined |-> TRUE, fields |-> <<"name", "email">>, when |-> Undefined]

PatByEmail ==
  [pk |-> <<Lit("email#"), Fld("email")>>, sk |-> <<Lit("user#"), Fld("id")>>,
   fieldsDefined |-> FALSE, fields |-> <<>>, when |-> "isActive"]

PatByName ==
  [pk |-> <<Lit("name#"), Fld("name")>>, sk |-> <<Fld("id")>>,
   fieldsDefined |-> TRUE, fields |-> <<"email">>, when |-> "isActive"]

KeyLists ==
  {<<PatProfile>>, <<PatByEmail, PatByName>>, <<PatProfile, PatByEmail, PatByName>>}

(***************************************************************************)
(* Operations of a batch and the store's effect of each.                   *)
(***************************************************************************)
PutOp(item)         == [kind |-> "Put", Item |-> item]
DeleteOp(key)       == [kind |-> "Delete", Key |-> key]
UpdateOp(key, expr) ==
  [kind |-> "Update", Key |-> key,
   UpdateExpression |-> expr.UpdateExpression,
   ExpressionAttributeNames |-> expr.ExpressionAttributeNames,
   ExpressionAttributeValues |-> expr.ExpressionAttributeValues]

KeyOf(item) == [pk |-> item.pk, sk |-> item.sk]

OpKey(op) == IF op.kind = "Put" THEN KeyOf(op.Item) ELSE op.Key

\* client.get: the item stored under a key, as a set of zero or one item
ItemsAt(table, key) == {it \in table : KeyOf(it) = key}

RECURSIVE ApplySet(_, _, _, _)
ApplySet(item, clauses, names, values) ==
  IF clauses = <<>> THEN item
  ELSE ApplySet(Merge(item, [a \in {names[clauses[1].name]} |-> values[clauses[1].value]]),
                Tail(clauses), names, values)

\* the store's effect of one operation (Put replaces, Delete removes,
\* Update sets attributes of the item, creating it when it is absent)
ApplyOp(table, op) ==
  CASE op.kind = "Put" ->
         (table \ ItemsAt(table, KeyOf(op.Item))) \cup {op.Item}
    [] op.kind = "Delete" ->
         table \ ItemsAt(table, op.Key)
    [] op.kind = "Update" ->
         LET old  == ItemsAt(table, op.Key)
             base == IF old = {} THEN op.Key ELSE CHOOSE it \in old : TRUE
         IN (table \ old) \cup
              {ApplySet(base, op.UpdateExpression,
                        op.ExpressionAttributeNames, op.ExpressionAttributeValues)}

RECURSIVE ApplyBatch(_, _)
ApplyBatch(table, ops) ==
  IF ops = <<>> THEN table ELSE ApplyBatch(ApplyOp(table, ops[1]), Tail(ops))

(***************************************************************************)
(* DynamoDB.updateExpression                                               *)
(***************************************************************************)
ObjectKeys(object) == SelectSeq(AttrOrder, LAMBDA k : k \in DOMAIN object)

\* a variant of updateExpression that leaves pk and sk in the object
updateExpressionWithKeys(object) ==
  LET ks == ObjectKeys(object)
  IN [UpdateExpression |->
        [i \in 1..Len(ks) |-> [name |-> "#" \o ks[i], value |-> ":" \o ks[i]]],
      ExpressionAttributeNames |->
        [n \in {"#" \o k : k \in DOMAIN object} |->
           CHOOSE k \in DOMAIN object : n = "#" \o k],
      ExpressionAttributeValues |->
        [v \in {":" \o k : k \in DOMAIN object} |->
           object[CHOOSE k \in DOMAIN object : v = ":" \o k]]]

updateExpression(object) ==
  LET stripped == [k \in (DOMAIN object) \ {"pk", "sk"} |-> object[k]]
      ks       == ObjectKeys(stripped)
  IN [UpdateExpression |->
        [i \in 1..Len(ks) |-> [name |-> "#" \o ks[i], value |-> ":" \o ks[i]]],
      ExpressionAttributeNames |->
        [n \in {"#" \o k : k \in DOMAIN stripped} |->
           CHOOSE k \in DOMAIN stripped : n = "#" \o k],
      ExpressionAttributeValues |->
        [v \in {":" \o k : k \in DOMAIN stripped} |->
           stripped[CHOOSE k \in DOMAIN stripped : v = ":" \o k]]]

(***************************************************************************)
(* DynamoCollection                                                        *)
(***************************************************************************)
\* #key: every {field} of the template replaced by the value of data[field]
RECURSIVE key(_, _)
key(pattern, data) ==
  IF pattern = <<>> THEN ""
  ELSE (IF pattern[1].t = "lit" THEN pattern[1].v ELSE Prop(data, pattern[1].v))
         \o key(Tail(pattern), data)

resolveKeys(pattern, data) ==
  [pk |-> key(pattern.pk, data), sk |-> key(pattern.sk, data)]

\* `when !== undefined && !when(data)`
rejects(pattern, data) == pattern.when # Undefined /\ ~When(pattern.when, data)

\* a variant of addItem that ignores the `fields` list
addItemWholeEntity(pattern, data) == Merge(data, resolveKeys(pattern, data))

\* the item add() assembles for one pattern
addItem(pattern, data) ==
  IF pattern.fieldsDefined
    THEN Merge(resolveKeys(pattern, data),
               [f \in Range(pattern.fields) |-> Prop(data, f)])
    ELSE Merge(data, resolveKeys(pattern, data))

addPatternOps(pattern, data) ==
  IF rejects(pattern, data) THEN <<>> ELSE <<PutOp(addItem(pattern, data))>>

\* a variant of removePatternOps that does not consult `when`
removePatternOpsAlways(pattern, data) == <<DeleteOp(resolveKeys(pattern, data))>>

removePatternOps(pattern, data) ==
  IF rejects(pattern, data) THEN <<>> ELSE <<DeleteOp(resolveKeys(pattern, data))>>

\* the loop that drops the changes that are no changes
stripChangesNone(data, changes) == changes

stripChanges(data, changes) ==
  [k \in {f \in DOMAIN changes : ~isEqual(Prop(data, f), changes[f])} |-> changes[k]]

\* a variant of transitionOps that leaves the item in place
transitionOpsNone(prevKey) == <<>>

\* `when` was true and is now false: a delete op at the previous key
transitionOps(prevKey) == <<DeleteOp(prevKey)>>

\* a variant of migrateOps that writes the new item and keeps the old one
migrateOpsNoDelete(prevKey, curr, currKey) == <<PutOp(Merge(curr, currKey))>>

\* the key changed: a delete op for the previous item, a create op for the current
migrateOps(prevKey, curr, currKey) ==
  <<DeleteOp(prevKey), PutOp(Merge(curr, currKey))>>

\* a variant of currChangesOf that ignores the `fields` list
currChangesAll(pattern, changes) == changes

\* currChanges: the changes that fall in the pattern's projection
currChangesOf(pattern, changes) ==
  IF pattern.fieldsDefined
    THEN [f \in {g \in Range(pattern.fields) : Prop(changes, g) # Undefined} |->
            changes[f]]
    ELSE changes

\* the body of update()'s loop for one pattern; changes are already stripped
updatePatternOps(pattern, data, changes) ==
  LET merged == Merge(data, changes)
      curr ==
        IF pattern.fieldsDefined
          THEN [f \in Range(pattern.fields) |->
                  IF Prop(changes, f) # Undefined THEN changes[f] ELSE Prop(data, f)]
          ELSE merged
      currChanges == currChangesOf(pattern, changes)
      prevKey == resolveKeys(pattern, data)
      currKey == resolveKeys(pattern, merged)
  IN IF pattern.when # Undefined /\ When(pattern.when, data)
          /\ ~When(pattern.when, merged)
       THEN transitionOps(prevKey)
     ELSE IF pattern.when # Undefined /\ ~When(pattern.when, merged)
       THEN <<>>
     ELSE IF prevKey.pk # currKey.pk \/ prevKey.sk # currKey.sk
       THEN migrateOps(prevKey, curr, currKey)
     ELSE IF ~isEmpty(currChanges)
       THEN <<UpdateOp(currKey, updateExpression(currChanges))>>
     ELSE <<>>

RECURSIVE addOps(_, _)
addOps(patterns, data) ==
  IF patterns = <<>> THEN <<>>
  ELSE addPatternOps(patterns[1], data) \o addOps(Tail(patterns), data)

RECURSIVE removeOps(_, _)
removeOps(patterns, data) ==
  IF patterns = <<>> THEN <<>>
  ELSE removePatternOps(patterns[1], data) \o removeOps(Tail(patterns), data)

RECURSIVE updateOps(_, _, _)
updateOps(patterns, data, changes) ==
  IF patterns = <<>> THEN <<>>
  ELSE updatePatternOps(patterns[1], data, changes)
         \o updateOps(Tail(patterns), data, changes)

\* a variant of withExtraOps that puts the caller's operations first
withExtraOpsFirst(ops, extra) == IF extra.defined THEN extra.ops \o ops ELSE ops

\* `if (extraOps !== undefined) ops = [...ops, ...extraOps]`
withExtraOps(ops, extra) == IF extra.defined THEN ops \o extra.ops ELSE ops

ExtraItem == [pk |-> "audit#1", sk |-> "log", note |-> "created"]

ExtraOpsChoices ==
  {[defined |-> FALSE, ops |-> <<>>],
   [defined |-> TRUE,  ops |-> <<PutOp(ExtraItem)>>]}

\* lastCall: op and data are the call's arguments, given whether the change
\* set as passed named any field, same whether every field it named
\* deep-equals the entity's value, extra the call's opts.extraOps, changes
\* the change set once the no-ops are dropped, ops the batch, calls the
\* transactWrite calls made
NoCall ==
  [op |-> "none", data |-> EmptyObject, given |-> FALSE, same |-> TRUE,
   changes |-> EmptyObject, extra |-> [defined |-> FALSE, ops |-> <<>>],
   ops |-> <<>>, calls |-> 0, result |-> "none"]

\* the store's answer to a batch within the ceiling, as the caller sees it
Outcomes == {"ok", "error"}

\* the tail shared by add, update and remove: return early without a call
\* when there are no ops, else transactWrite(ops)
Submit(call, ops, next) ==
  IF Len(ops) = 0
    THEN /\ lastCall' = Merge(call, [ops |-> ops, calls |-> 0, result |-> "skipped"])
         /\ entity' = next
         /\ store' = store
    ELSE \E outcome \in Outcomes :
           /\ lastCall' = Merge(call, [ops |-> ops, calls |-> 1, result |-> outcome])
           /\ IF outcome = "ok"
                THEN store' = ApplyBatch(store, ops) /\ entity' = next
                ELSE store' = store /\ entity' = entity

CallOf(op, data, raw, changes, extra) ==
  [op |-> op, data |-> data, given |-> ~isEmpty(raw),
   same |-> \A f \in DOMAIN raw : isEqual(Prop(data, f), raw[f]),
   changes |-> changes, extra |-> extra]

Add(data, extra) ==
  /\ entity = {}
  /\ Submit(CallOf("add", data, EmptyObject, EmptyObject, extra),
            withExtraOps(addOps(keys, data), extra), {data})
  /\ UNCHANGED <<keys, transactLimit, txVars, svcVars, appVars>>

Update(changes, extra) ==
  /\ entity # {}
  /\ LET data == CHOOSE e \in entity : TRUE
         real == stripChanges(data, changes)
     IN Submit(CallOf("update", data, changes, real, extra),
               withExtraOps(updateOps(keys, data, real), extra),
               {Merge(data, real)})
  /\ UNCHANGED <<keys, transactLimit, txVars, svcVars, appVars>>

Remove(extra) ==
  /\ entity # {}
  /\ LET data == CHOOSE e \in entity : TRUE
     IN Submit(CallOf("remove", data, EmptyObject, EmptyObject, extra),
               withExtraOps(removeOps(keys, data), extra), {})
  /\ UNCHANGED <<keys, transactLimit, txVars, svcVars, appVars>>

Callers == {"c1", "c2"}

DefaultTransactLimit == 25

\* a promise that has not settled yet
Pending == [state |-> "pending", error |-> ""]

\* nothing has been constructed, encoded, queried or scanned
SvcIdle ==
  /\ ctor = [op |-> "none"]
  /\ codec = [op |-> "none"]
  /\ pager = [op |-> "none"]
  /\ filt = [op |-> "none"]
  /\ scan = [op |-> "none"]
  /\ calc = [op |-> "none"]
  /\ job = [op |-> "none"]
  /\ mig = [op |-> "none"]
  /\ pub = [op |-> "none"]

TxIdle ==
  /\ batch = [c \in Callers |-> <<>>]
  /\ inv = [c \in Callers |-> <<>>]
  /\ settled = [c \in Callers |-> Pending]

Init ==
  /\ keys \in KeyLists
  /\ entity = {}
  /\ store = {}
  /\ lastCall = NoCall
  /\ transactLimit = DefaultTransactLimit
  /\ TxIdle
  /\ SvcIdle

Next ==
  \/ \E data \in Entities, extra \in ExtraOpsChoices : Add(data, extra)
  \/ \E changes \in ChangeSets, extra \in ExtraOpsChoices : Update(changes, extra)
  \/ \E extra \in ExtraOpsChoices : Remove(extra)

Spec == Init /\ [][Next]_vars

(***************************************************************************)
(* What the claims speak of: the view a pattern gives of an entity, and    *)
(* the last call's inputs.                                                 *)
(***************************************************************************)
\* the item a pattern stands for: the resolved keys plus the projection
ViewItem(pattern, e) ==
  [a \in {"pk", "sk"} \cup
         (IF pattern.fieldsDefined THEN Range(pattern.fields) ELSE DOMAIN e) |->
     IF a = "pk" THEN key(pattern.pk, e)
     ELSE IF a = "sk" THEN key(pattern.sk, e)
     ELSE e[a]]

Accepts(pattern, e) == pattern.when = Undefined \/ When(pattern.when, e)

Patterns == Range(keys)

\* the items of the entity: everything but what the caller's extraOps wrote
EntityItems == store \ {ExtraItem}

\* the operations of a batch that target a key
OpsAt(ops, k) == {i \in 1..Len(ops) : OpKey(ops[i]) = k}

LastMerged == Merge(lastCall.data, lastCall.changes)

Succeeded == lastCall.result \in {"ok", "skipped"}

\* C1: after add and any run of updates, the store holds for the entity
\* exactly one full view item per accepting pattern, and nothing else
ViewConsistency ==
  \A e \in entity : EntityItems = {ViewItem(p, e) : p \in {q \in Patterns : Accepts(q, e)}}

\* C2: after a successful add, a get on the key of every accepting pattern
\* returns the keys plus the projected fields, and rejecting patterns have no item
AddThenGet ==
  (lastCall.op = "add" /\ Succeeded) =>
    \A p \in Patterns :
      ItemsAt(store, resolveKeys(p, lastCall.data)) =
        (IF Accepts(p, lastCall.data) THEN {ViewItem(p, lastCall.data)} ELSE {})

AddThenGetWitness ==
  /\ lastCall.op = "add" /\ lastCall.result = "ok"
  /\ \E p \in Patterns : p.fieldsDefined /\ Accepts(p, lastCall.data)
                          /\ ViewItem(p, lastCall.data) \in store
                          /\ "status" \notin DOMAIN ViewItem(p, lastCall.data)
  /\ \E p \in Patterns : ~p.fieldsDefined /\ Accepts(p, lastCall.data)
  /\ Cardinality(EntityItems) = 3

\* C3: after a successful remove no pattern's key holds an item, and the
\* batch holds one delete per accepting pattern and none for the others
RemoveThenGet ==
  (lastCall.op = "remove" /\ Succeeded) =>
    \A p \in Patterns :
      LET k == resolveKeys(p, lastCall.data)
      IN /\ ItemsAt(store, k) = {}
         /\ IF Accepts(p, lastCall.data)
              THEN \E i \in 1..Len(lastCall.ops) :
                     /\ lastCall.ops[i] = DeleteOp(k)
                     /\ OpsAt(lastCall.ops, k) = {i}
              ELSE OpsAt(lastCall.ops, k) = {}

RemoveThenGetWitness ==
  /\ lastCall.op = "remove" /\ lastCall.result = "ok"
  /\ \E p \in Patterns : Accepts(p, lastCall.data)
  /\ \E p \in Patterns : ~Accepts(p, lastCall.data)

\* C4: a pattern whose key changes and whose predicate accepts the merged
\* entity gets a delete at the old key and a put of the merged view at the
\* new key, never an update; once applied the old key is absent and the new
\* key holds the view
KeyMigration ==
  lastCall.op = "update" =>
    \A p \in Patterns :
      LET prev == resolveKeys(p, lastCall.data)
          next == resolveKeys(p, LastMerged)
      IN (prev # next /\ Accepts(p, LastMerged)) =>
           /\ \E i, j \in 1..Len(lastCall.ops) :
                /\ i < j
                /\ lastCall.ops[i] = DeleteOp(prev)
                /\ lastCall.ops[j] = PutOp(ViewItem(p, LastMerged))
                /\ OpsAt(lastCall.ops, prev) = {i}
                /\ OpsAt(lastCall.ops, next) = {j}
           /\ lastCall.result = "ok" =>
                /\ ItemsAt(store, prev) = {}
                /\ ItemsAt(store, next) = {ViewItem(p, LastMerged)}

KeyMigrationWitness ==
  /\ lastCall.op = "update" /\ lastCall.result = "ok"
  /\ \E p \in Patterns :
       /\ resolveKeys(p, lastCall.data) # resolveKeys(p, LastMerged)
       /\ Accepts(p, lastCall.data) /\ Accepts(p, LastMerged)
       /\ p.when # Undefined
       /\ ItemsAt(store, resolveKeys(p, LastMerged)) = {ViewItem(p, LastMerged)}

\* C5: a predicate going from accepting to rejecting gives exactly one delete
\* at the entity's key and no put or update; rejecting before and after gives
\* no operation for the pattern
PredicateTransition ==
  lastCall.op = "update" =>
    \A p \in {q \in Patterns : q.when # Undefined} :
      LET prev   == resolveKeys(p, lastCall.data)
          next   == resolveKeys(p, LastMerged)
          forPat == OpsAt(lastCall.ops, prev) \cup OpsAt(lastCall.ops, next)
      IN /\ (When(p.when, lastCall.data) /\ ~When(p.when, LastMerged)) =>
              \E i \in 1..Len(lastCall.ops) :
                forPat = {i} /\ lastCall.ops[i] = DeleteOp(prev)
         /\ (~When(p.when, lastCall.data) /\ ~When(p.when, LastMerged)) =>
              forPat = {}

PredicateTransitionWitness ==
  /\ lastCall.op = "update" /\ lastCall.result = "ok"
  /\ \E p \in Patterns :
       /\ p.when # Undefined
       /\ When(p.when, lastCall.data) /\ ~When(p.when, LastMerged)
       /\ resolveKeys(p, lastCall.data) # resolveKeys(p, LastMerged)
       /\ ItemsAt(store, resolveKeys(p, lastCall.data)) = {}
  /\ \E p \in Patterns : p.when = Undefined

(***************************************************************************)
(* DynamoDB.transactWrite, step by step.                                   *)
(***************************************************************************)
\* `if (attempts > 20)`
MaxAttempts == 20

\* the ceiling the callers of SpecTx configure
TxLimit == 2

MaxAttemptsMessage == "Max attempts retrying TransactionConflict"

ConflictMessage ==
  "Transaction cancelled, please refer cancellation reasons for specific reasons [TransactionConflict]"

OtherMessage == "The provided key element does not match the schema"

\* what client.transactWrite(params).promise() can answer
Answers == {"ok", ConflictMessage, OtherMessage}

\* error.message.match(/TransactionConflict/)
matchesTransactionConflict(message) ==
  message \in {ConflictMessage, MaxAttemptsMessage}

Resolved        == [state |-> "resolved", error |-> ""]
Rejected(error) == [state |-> "rejected", error |-> error]

\* a variant of chunk that keeps only the full groups
RECURSIVE chunkFullOnly(_, _)
chunkFullOnly(array, size) ==
  IF Len(array) < size THEN <<>>
  ELSE <<SubSeq(array, 1, size)>>
         \o chunkFullOnly(SubSeq(array, size + 1, Len(array)), size)

\* lodash.chunk: groups of `size`, the last one holding the remainder
RECURSIVE chunk(_, _)
chunk(array, size) ==
  IF Len(array) = 0 THEN <<>>
  ELSE IF Len(array) <= size THEN <<array>>
  ELSE <<SubSeq(array, 1, size)>> \o chunk(SubSeq(array, size + 1, Len(array)), size)

\* `if (ops.length > this.transactLimit)`
overLimit(ops, limit) == Len(ops) > limit

\* a variant of assembleItems that forgets the deletes
RECURSIVE assembleItemsNoDelete(_)
assembleItemsNoDelete(ops) ==
  IF ops = <<>> THEN <<>>
  ELSE (IF ops[1].kind \in {"Put", "Update"} THEN <<ops[1]>> ELSE <<>>)
       \o assembleItemsNoDelete(Tail(ops))

\* the ops.forEach that assembles params.TransactItems
RECURSIVE assembleItems(_)
assembleItems(ops) ==
  IF ops = <<>> THEN <<>>
  ELSE (IF ops[1].kind = "Put" THEN <<ops[1]>> ELSE <<>>)
       \o (IF ops[1].kind = "Delete" THEN <<ops[1]>> ELSE <<>>)
       \o (IF ops[1].kind = "Update" THEN <<ops[1]>> ELSE <<>>)
       \o assembleItems(Tail(ops))

\* one run of the retry loop: params and the loop's locals
NewInvocation(ops) ==
  [params |-> assembleItems(ops), pc |-> "loop", attempts |-> 0, success |-> FALSE,
   calls |-> 0, answer |-> "none", applied |-> FALSE, promise |-> Pending]

\* the invocations a call starts: one per chunk, or one for the whole batch
invocationsOf(ops, limit) ==
  IF overLimit(ops, limit)
    THEN LET chunks == chunk(ops, limit)
         IN [i \in 1..Len(chunks) |-> NewInvocation(chunks[i])]
    ELSE <<NewInvocation(ops)>>

\* a variant of exhausted that gives up one attempt early
exhaustedEarly(attempts) == attempts >= MaxAttempts

\* `if (attempts > 20)`
exhausted(attempts) == attempts > MaxAttempts

\* the head of the loop body: count the attempt, give up or run the query
beginAttempt(iv) ==
  LET n == iv.attempts + 1
  IN IF exhausted(n)
       THEN [iv EXCEPT !.attempts = n, !.pc = "done",
                       !.promise = Rejected(MaxAttemptsMessage)]
       ELSE [iv EXCEPT !.attempts = n, !.pc = "inflight", !.calls = iv.calls + 1]

\* a variant of onAnswer that takes a conflict for a success
onAnswerSwallowed(iv, answer) ==
  IF answer = "ok"
    THEN [iv EXCEPT !.answer = answer, !.success = TRUE, !.applied = TRUE,
                    !.pc = "done", !.promise = Resolved]
  ELSE IF matchesTransactionConflict(answer)
    THEN [iv EXCEPT !.answer = answer, !.success = TRUE,
                    !.pc = "done", !.promise = Resolved]
  ELSE [iv EXCEPT !.answer = answer, !.pc = "done", !.promise = Rejected(answer)]

\* a variant of onAnswer that sleeps and retries after every error
onAnswerRetryAll(iv, answer) ==
  IF answer = "ok"
    THEN [iv EXCEPT !.answer = answer, !.success = TRUE, !.applied = TRUE,
                    !.pc = "done", !.promise = Resolved]
  ELSE [iv EXCEPT !.answer = answer, !.pc = "sleep"]

\* the .then / .catch on the store's answer
onAnswer(iv, answer) ==
  IF answer = "ok"
    THEN [iv EXCEPT !.answer = answer, !.success = TRUE, !.applied = TRUE,
                    !.pc = "done", !.promise = Resolved]
  ELSE IF matchesTransactionConflict(answer)
    THEN [iv EXCEPT !.answer = answer, !.pc = "sleep"]
  ELSE [iv EXCEPT !.answer = answer, !.pc = "done", !.promise = Rejected(answer)]

\* a variant of settle that settles with the first chunk that settles
settleFirst(old, invocations, i) ==
  IF old.state # "pending" THEN old ELSE invocations[i].promise

\* Promise.all over the chunks (a single invocation's promise is the call's):
\* rejected with the first rejection, resolved once every chunk resolved
settle(old, invocations, i) ==
  IF old.state # "pending" THEN old
  ELSE IF invocations[i].promise.state = "rejected" THEN invocations[i].promise
  ELSE IF \A j \in 1..Len(invocations) : invocations[j].promise.state = "resolved"
    THEN Resolved
  ELSE old

KeyA == [pk |-> "item#A", sk |-> "v"]
KeyB == [pk |-> "item#B", sk |-> "v"]
KeyC == [pk |-> "item#C", sk |-> "v"]
KeyD == [pk |-> "item#D", sk |-> "v"]

NoteItem(k, note) == Merge(k, [note |-> note])

\* the batches the callers of SpecTx submit
TxBatches ==
  {<<PutOp(NoteItem(KeyA, "x")), PutOp(NoteItem(KeyB, "x"))>>,
   <<UpdateOp(KeyA, updateExpression([note |-> "y"])), DeleteOp(KeyB)>>,
   <<PutOp(NoteItem(KeyA, "z")), DeleteOp(KeyB),
     UpdateOp(KeyC, updateExpression([note |-> "z"]))>>,
   <<PutOp(NoteItem(KeyA, "z")), PutOp(NoteItem(KeyB, "z")),
     UpdateOp(KeyC, updateExpression([note |-> "z"])), DeleteOp(KeyD)>>}

\* a batch has at most four ops, so a call has at most four chunks
ChunkIndexes == 1..4

Started == {c \in Callers : batch[c] # <<>>}

\* transactWrite(ops): chunk or assemble; the model runs a batch over the
\* ceiling alone, and batches within the ceiling side by side
TransactWrite(c, ops) ==
  /\ batch[c] = <<>>
  /\ \A d \in Started : ~overLimit(batch[d], transactLimit)
  /\ overLimit(ops, transactLimit) => Started = {}
  /\ batch' = [batch EXCEPT ![c] = ops]
  /\ inv' = [inv EXCEPT ![c] = invocationsOf(ops, transactLimit)]
  /\ UNCHANGED <<store, settled, transactLimit, collVars, svcVars, appVars>>

\* `while (!success) { attempts += 1; if (attempts > 20) throw ...; run the query`
Attempt(c, i) ==
  /\ i \in 1..Len(inv[c])
  /\ inv[c][i].pc = "loop"
  /\ ~inv[c][i].success
  /\ LET next == [inv[c] EXCEPT ![i] = beginAttempt(inv[c][i])]
     IN /\ inv' = [inv EXCEPT ![c] = next]
        /\ settled' = [settled EXCEPT ![c] = settle(settled[c], next, i)]
  /\ UNCHANGED <<store, batch, transactLimit, collVars, svcVars, appVars>>

\* the store answers the request in flight: it applies the whole of
\* TransactItems, or rejects it with a conflict or another error
Respond(c, i, answer) ==
  /\ i \in 1..Len(inv[c])
  /\ inv[c][i].pc = "inflight"
  /\ LET next == [inv[c] EXCEPT ![i] = onAnswer(inv[c][i], answer)]
     IN /\ inv' = [inv EXCEPT ![c] = next]
        /\ settled' = [settled EXCEPT ![c] = settle(settled[c], next, i)]
  /\ store' = IF answer = "ok" THEN ApplyBatch(store, inv[c][i].params) ELSE store
  /\ UNCHANGED <<batch, transactLimit, collVars, svcVars, appVars>>

\* the timer of `setTimeout(resolve, wait)` fires and the loop goes round
Wake(c, i) ==
  /\ i \in 1..Len(inv[c])
  /\ inv[c][i].pc = "sleep"
  /\ inv' = [inv EXCEPT ![c][i].pc = "loop"]
  /\ UNCHANGED <<store, batch, settled, transactLimit, collVars, svcVars, appVars>>

InitTx ==
  /\ keys = <<PatProfile>>
  /\ entity = {}
  /\ store = {}
  /\ lastCall = NoCall
  /\ transactLimit = TxLimit
  /\ TxIdle
  /\ SvcIdle

NextTx ==
  \/ \E c \in Callers, ops \in TxBatches : TransactWrite(c, ops)
  \/ \E c \in Callers, i \in ChunkIndexes : Attempt(c, i)
  \/ \E c \in Callers, i \in ChunkIndexes, answer \in Answers : Respond(c, i, answer)
  \/ \E c \in Callers, i \in ChunkIndexes : Wake(c, i)

SpecTx == InitTx /\ [][NextTx]_vars

\* the event loop runs every continuation that is ready, the store answers
\* every request and every timer fires
FairSpecTx ==
  /\ SpecTx
  /\ \A c \in Callers, i \in ChunkIndexes :
       /\ WF_vars(Attempt(c, i))
       /\ WF_vars(\E answer \in Answers : Respond(c, i, answer))
       /\ WF_vars(Wake(c, i))

(***************************************************************************)
(* Properties of transactWrite.                                            *)
(***************************************************************************)
Invocations == {<<c, i>> \in Callers \X ChunkIndexes : i <= Len(inv[c])}

WithinCeiling(c) == c \in Started /\ ~overLimit(batch[c], transactLimit)

\* C6: success on attempt N <= 20 makes the call succeed, twenty conflicts
\* make it throw the max-attempts DatabaseError, and no invocation of the
\* loop makes more than 20 underlying calls
RetryBound ==
  \A ci \in Invocations :
    LET iv == inv[ci[1]][ci[2]]
    IN /\ iv.calls <= MaxAttempts
       /\ iv.answer = "ok" =>
            iv.pc = "done" /\ iv.promise = Resolved /\ iv.calls <= MaxAttempts
       /\ iv.promise = Rejected(MaxAttemptsMessage) <=> iv.attempts > MaxAttempts
       /\ iv.attempts > MaxAttempts =>
            /\ iv.pc = "done"
            /\ iv.calls = MaxAttempts
            /\ iv.answer = ConflictMessage
       /\ (iv.pc = "sleep" /\ iv.calls < MaxAttempts) => ~iv.success

RetryBoundWitness ==
  /\ WithinCeiling("c1") /\ WithinCeiling("c2")
  /\ inv["c1"][1].promise = Resolved /\ inv["c1"][1].calls = MaxAttempts
  /\ inv["c2"][1].promise = Rejected(MaxAttemptsMessage)
  /\ settled["c1"] = Resolved
  /\ settled["c2"] = Rejected(MaxAttemptsMessage)

AllApplied(c)  == \A i \in 1..Len(inv[c]) : inv[c][i].applied
NoneApplied(c) == \A i \in 1..Len(inv[c]) : ~inv[c][i].applied

\* C7 as stated: whatever the size of the batch, when the call has returned
\* or thrown, all of the batch has been applied or none of it
BatchAtomicity ==
  \A c \in Started :
    settled[c].state # "pending" => AllApplied(c) \/ NoneApplied(c)

\* C7 amended: a batch within the ceiling goes to the store whole, in one
\* transaction; when the call has returned all of it has been applied, when
\* it has thrown none of it has
BatchAtomicityWithinCeiling ==
  \A c \in Callers :
    WithinCeiling(c) =>
      /\ Len(inv[c]) = 1
      /\ inv[c][1].params = batch[c]
      /\ settled[c].state = "resolved" => AllApplied(c)
      /\ settled[c].state = "rejected" => NoneApplied(c)

BatchAtomicityWitness ==
  /\ WithinCeiling("c1") /\ WithinCeiling("c2")
  /\ Len(batch["c1"]) = transactLimit
  /\ \E i \in 1..Len(batch["c1"]) : batch["c1"][i].kind = "Delete"
  /\ settled["c1"] = Resolved /\ inv["c1"][1].attempts > 1
  /\ settled["c2"] = Rejected(OtherMessage)
  /\ store = ApplyBatch({}, batch["c1"])

\* the orders in which a set of callers can be lined up
Orders(S) ==
  {o \in [1..Cardinality(S) -> S] : \A i, j \in DOMAIN o : o[i] = o[j] => i = j}

RECURSIVE ApplyInOrder(_, _, _)
ApplyInOrder(table, order, n) ==
  IF n > Len(order) THEN table
  ELSE ApplyInOrder(ApplyBatch(table, batch[order[n]]), order, n + 1)

\* the store holds whole batches only: those of the calls that returned
\* success, applied one after another in some order
Serializable ==
  (\A c \in Started : WithinCeiling(c)) =>
    \E o \in Orders({c \in Started : settled[c] = Resolved}) :
      store = ApplyInOrder({}, o, 1)

\* every call that was made settles
Terminates ==
  \A c \in Callers : (batch[c] # <<>>) ~> (settled[c].state # "pending")

\* C8: concurrent writers on overlapping items never expose part of a batch,
\* the store equals the successful batches applied in some order, and every
\* call returns or throws
ConcurrentWriters == []Serializable /\ Terminates

ConcurrentWritersWitness ==
  /\ WithinCeiling("c1") /\ WithinCeiling("c2")
  /\ \E i \in 1..Len(batch["c1"]), j \in 1..Len(batch["c2"]) :
       OpKey(batch["c1"][i]) = OpKey(batch["c2"][j])
  /\ settled["c1"] = Resolved /\ settled["c2"] = Resolved
  /\ inv["c1"][1].attempts > 1 /\ inv["c2"][1].attempts > 1
  /\ store = ApplyBatch(ApplyBatch({}, batch["c1"]), batch["c2"])
  /\ store # ApplyBatch(ApplyBatch({}, batch["c2"]), batch["c1"])

RECURSIVE Flatten(_)
Flatten(seqs) == IF seqs = <<>> THEN <<>> ELSE seqs[1] \o Flatten(Tail(seqs))

\* C9: a batch over the ceiling goes out in several transactions of at most
\* transactLimit ops that together carry every op once, in order; a batch
\* within the ceiling goes out in one; each attempt makes one underlying call
BatchChunking ==
  \A c \in Started :
    /\ Flatten([i \in 1..Len(inv[c]) |-> inv[c][i].params]) = batch[c]
    /\ \A i \in 1..Len(inv[c]) :
         /\ Len(inv[c][i].params) \in 1..transactLimit
         /\ inv[c][i].calls =
              IF inv[c][i].attempts > MaxAttempts \/ inv[c][i].pc = "loop"
                THEN Min(inv[c][i].attempts, MaxAttempts)
                ELSE inv[c][i].attempts
    /\ IF overLimit(batch[c], transactLimit)
         THEN Len(inv[c]) > 1
         ELSE Len(inv[c]) = 1

BatchChunkingWitness ==
  \E c \in Started :
    /\ overLimit(batch[c], transactLimit)
    /\ Len(inv[c][Len(inv[c])].params) < transactLimit
    /\ settled[c] = Resolved
    /\ store = ApplyBatch({}, batch[c])

\* C10: an answer that is neither success nor a conflict ends the loop at
\* once: the call throws a DatabaseError with the store's message, without
\* sleeping and without another attempt
OnlyConflictsRetried ==
  \A ci \in Invocations :
    LET iv == inv[ci[1]][ci[2]]
    IN (iv.answer \notin {"none", "ok"} /\ iv.answer # ConflictMessage) =>
         /\ iv.pc = "done"
         /\ iv.promise = Rejected(iv.answer)
         /\ iv.calls = iv.attempts
         /\ ~iv.success
         /\ settled[ci[1]].state = "rejected"
         /\ Len(inv[ci[1]]) = 1 => settled[ci[1]] = Rejected(iv.answer)

OnlyConflictsRetriedWitness ==
  \E ci \in Invocations :
    /\ inv[ci[1]][ci[2]].promise = Rejected(OtherMessage)
    /\ inv[ci[1]][ci[2]].attempts = MaxAttempts

(***************************************************************************)
(* C11  Idempotence of update: an update called without extraOps whose     *)
(* change set is empty, or names only fields that deep-equal the entity's  *)
(* current values, emits no operation and makes no transactWrite call,     *)
(* and leaves the entity as it was.                                        *)
(***************************************************************************)
UpdateIdempotence ==
  (lastCall.op = "update" /\ ~lastCall.extra.defined /\ lastCall.same)
    => /\ lastCall.ops = <<>>
       /\ lastCall.calls = 0
       /\ entity = {lastCall.data}

\* an update that names fields, all with the values they already hold
UpdateIdempotenceWitness ==
  /\ lastCall.op = "update"
  /\ ~lastCall.extra.defined
  /\ lastCall.given
  /\ lastCall.same
  /\ lastCall.calls = 0
  /\ Len(keys) > 1

(***************************************************************************)
(* C12  Field-only update: for a pattern whose keys the update leaves      *)
(* alone and whose predicate accepts the merged entity, the batch holds    *)
(* exactly one operation at the pattern's key, an Update that sets the     *)
(* changed fields of the pattern's projection and nothing else, and holds  *)
(* no operation at that key when no projected field changed.               *)
(***************************************************************************)
\* the changed fields that belong to the pattern's projection
ProjectedChanges(p) ==
  {f \in DOMAIN lastCall.changes : ~p.fieldsDefined \/ f \in Range(p.fields)}

\* the attribute / value pairs an Update operation sets
SetBy(op) ==
  {<<op.ExpressionAttributeNames[c.name], op.ExpressionAttributeValues[c.value]>> :
     c \in Range(op.UpdateExpression)}

FieldOnlyUpdate ==
  lastCall.op = "update" =>
    \A p \in Patterns :
      LET k == resolveKeys(p, lastCall.data)
      IN (k = resolveKeys(p, LastMerged) /\ Accepts(p, LastMerged)) =>
           IF ProjectedChanges(p) = {}
             THEN OpsAt(lastCall.ops, k) = {}
             ELSE /\ Cardinality(OpsAt(lastCall.ops, k)) = 1
                  /\ \A i \in OpsAt(lastCall.ops, k) :
                       /\ lastCall.ops[i].kind = "Update"
                       /\ Len(lastCall.ops[i].UpdateExpression) =
                            Cardinality(ProjectedChanges(p))
                       /\ SetBy(lastCall.ops[i]) =
                            {<<f, lastCall.changes[f]>> : f \in ProjectedChanges(p)}

\* one update of two fields gives a projecting pattern an Update of the one
\* field it projects and a whole-entity pattern an Update of both
FieldOnlyUpdateWitness ==
  /\ lastCall.op = "update"
  /\ lastCall.result = "ok"
  /\ \E p \in Patterns :
       /\ p.fieldsDefined
       /\ resolveKeys(p, lastCall.data) = resolveKeys(p, LastMerged)
       /\ Accepts(p, LastMerged)
       /\ Cardinality(ProjectedChanges(p)) = 1
       /\ Cardinality(DOMAIN lastCall.changes) = 2
       /\ OpsAt(lastCall.ops, resolveKeys(p, lastCall.data)) # {}
  /\ \E p \in Patterns :
       /\ ~p.fieldsDefined
       /\ resolveKeys(p, lastCall.data) = resolveKeys(p, LastMerged)
       /\ Accepts(p, LastMerged)
       /\ Cardinality(ProjectedChanges(p)) = 2
       /\ OpsAt(lastCall.ops, resolveKeys(p, lastCall.data)) # {}

(***************************************************************************)
(* C15  add, remove and update hand the operations of the patterns,        *)
(* followed by the caller's extraOps, to one transactWrite call; they make *)
(* no call when that list is empty, and make the call when it holds the    *)
(* extraOps alone.                                                         *)
(***************************************************************************)
\* the operations the last call emitted for the patterns
PatternOps ==
  IF lastCall.op = "add" THEN addOps(keys, lastCall.data)
  ELSE IF lastCall.op = "update"
    THEN updateOps(keys, lastCall.data, lastCall.changes)
  ELSE removeOps(keys, lastCall.data)

GivenExtraOps == IF lastCall.extra.defined THEN lastCall.extra.ops ELSE <<>>

OneBatch ==
  lastCall.op # "none" =>
    /\ lastCall.ops = PatternOps \o GivenExtraOps
    /\ lastCall.calls = (IF PatternOps \o GivenExtraOps = <<>> THEN 0 ELSE 1)
    /\ (lastCall.result = "ok" /\ GivenExtraOps # <<>>) => ExtraItem \in store

\* a call whose patterns emit nothing submits the caller's operations alone
OneBatchWitness ==
  /\ lastCall.op \in {"add", "update"}
  /\ PatternOps = <<>>
  /\ GivenExtraOps # <<>>
  /\ lastCall.ops = GivenExtraOps
  /\ lastCall.calls = 1
  /\ lastCall.result = "ok"

(***************************************************************************)
(* SpecPartial: the collection given entities that lack a field one of     *)
(* the key templates names.                                                *)
(***************************************************************************)
\* entities without their `id`, and entities without their `name`
PartialEntities ==
  {[f \in FieldNames \ {g} |-> e[f]] :
     e \in {x \in Entities : x.email = "a@x.com"}, g \in {"id", "name"}}

RECURSIVE placeholders(_)
\* the {field} tokens of a template: `pattern.matchAll(/{(\w+)}/g)`
placeholders(pattern) ==
  IF pattern = <<>> THEN {}
  ELSE (IF pattern[1].t = "field" THEN {pattern[1].v} ELSE {})
         \cup placeholders(Tail(pattern))

\* the placeholders of a pattern's pk and sk that the data has no field for
unresolved(pattern, data) ==
  (placeholders(pattern.pk) \cup placeholders(pattern.sk)) \ DOMAIN data

\* the change sets of at most one field
SingleChanges == {c \in ChangeSets : Cardinality(DOMAIN c) <= 1}

NextPartial ==
  \/ \E data \in PartialEntities, extra \in ExtraOpsChoices : Add(data, extra)
  \/ \E changes \in SingleChanges, extra \in ExtraOpsChoices : Update(changes, extra)
  \/ \E extra \in ExtraOpsChoices : Remove(extra)

SpecPartial == Init /\ [][NextPartial]_vars

(***************************************************************************)
(* C13  Key resolution fails on a missing field: a call whose entity (or   *)
(* merged entity) lacks a field that a pk or sk template names fails with  *)
(* a configuration error and submits nothing, and the store holds no item  *)
(* under a key in which a placeholder was left unresolved.                 *)
(***************************************************************************)
\* the keys `#key` builds for the last call's entity from templates that
\* name a field the entity lacks
UnresolvedKeys ==
  UNION {{resolveKeys(p, e) : p \in {q \in Patterns : unresolved(q, e) # {}}} :
           e \in {lastCall.data, LastMerged}}

MissingFieldFails ==
  (lastCall.op # "none" /\ UnresolvedKeys # {}) =>
    /\ lastCall.result = "ConfigurationError"
    /\ lastCall.calls = 0
    /\ \A item \in store : KeyOf(item) \notin UnresolvedKeys

(***************************************************************************)
(* SpecCtor: `new DynamoCollection({ dynamo, keys })` on a list of         *)
(* pattern configurations, then the collection's calls.                    *)
(***************************************************************************)
\* the keys the constructor destructures: `{ pk, sk, fields, when, ...extra }`
ConfigKeys == {"pk", "sk", "fields", "when"}

\* the values of `when` that are functions
Functions == {"isActive"}

\* a configuration: `has` the keys the object defines, then their values
PatternConfig(has, base, when) ==
  [has |-> has, pk |-> base.pk, sk |-> base.sk, fields |-> base.fields,
   when |-> when]

PatternConfigs ==
  {PatternConfig(h, b, w) :
     h \in SUBSET (ConfigKeys \cup {"ttl"}), b \in {PatProfile, PatByName},
     w \in {"isActive", "active"}}

\* the configuration PatByName is written as
ConfigByName == PatternConfig(ConfigKeys, PatByName, "isActive")

\* the lists given as `keys`: one configuration, or ConfigByName and one more
ConfigLists ==
  {<<c>> : c \in PatternConfigs} \cup {<<ConfigByName, c>> : c \in PatternConfigs}

NoError == [thrown |-> "", message |-> ""]

DatabaseError(message) == [thrown |-> "DatabaseError", message |-> message]

\* a variant of validate that lets unknown keys through
validateKnownOnly(config) ==
  IF "pk" \notin config.has
    THEN DatabaseError("Missing required access pattern config 'pk'")
  ELSE IF "sk" \notin config.has
    THEN DatabaseError("Missing required access pattern config 'sk'")
  ELSE IF "when" \in config.has /\ config.when \notin Functions
    THEN DatabaseError("Access pattern config 'when' must be a function")
  ELSE NoError

\* the checks of the loop body, in the order the constructor makes them
validate(config) ==
  IF config.has \ ConfigKeys # {}
    THEN DatabaseError("Unknown access pattern config")
  ELSE IF "pk" \notin config.has
    THEN DatabaseError("Missing required access pattern config 'pk'")
  ELSE IF "sk" \notin config.has
    THEN DatabaseError("Missing required access pattern config 'sk'")
  ELSE IF "when" \in config.has /\ config.when \notin Functions
    THEN DatabaseError("Access pattern config 'when' must be a function")
  ELSE NoError

\* `this.keys.push({ pk, sk, fields, when })`
pushed(config) ==
  [pk |-> config.pk, sk |-> config.sk,
   fieldsDefined |-> "fields" \in config.has,
   fields |-> IF "fields" \in config.has THEN config.fields ELSE <<>>,
   when |-> IF "when" \in config.has THEN config.when ELSE Undefined]

RECURSIVE firstError(_)
\* what the loop over `keys` throws: the first failed check of the first
\* failing pattern
firstError(configs) ==
  IF configs = <<>> THEN NoError
  ELSE IF validate(configs[1]) # NoError THEN validate(configs[1])
  ELSE firstError(Tail(configs))

\* what the constructor throws for a `keys` argument
constructError(defined, configs) ==
  IF ~defined THEN DatabaseError("Undefined schema") ELSE firstError(configs)

NotConstructed == [op |-> "none"]

Construct(defined, configs) ==
  /\ ctor = NotConstructed
  /\ ctor' = [op |-> "new", defined |-> defined, configs |-> configs,
              error |-> constructError(defined, configs)]
  /\ keys' = IF constructError(defined, configs) = NoError
               THEN [i \in 1..Len(configs) |-> pushed(configs[i])]
               ELSE <<>>
  /\ UNCHANGED <<entity, store, lastCall, transactLimit, txVars,
                 codec, pager, filt, scan, appVars>>

Constructed == ctor # NotConstructed /\ ctor.error = NoError

\* the entities the constructed collection is given
CtorEntities ==
  {e \in Entities : e.id = "1" /\ e.name = "Ann" /\ e.email = "a@x.com"}

InitCtor ==
  /\ keys = <<>>
  /\ entity = {}
  /\ store = {}
  /\ lastCall = NoCall
  /\ transactLimit = DefaultTransactLimit
  /\ TxIdle
  /\ SvcIdle

NextCtor ==
  \/ \E configs \in ConfigLists : Construct(TRUE, configs)
  \/ Construct(FALSE, <<>>)
  \/ Constructed /\ \E data \in CtorEntities : Add(data, [defined |-> FALSE, ops |-> <<>>])
  \/ Constructed /\ \E changes \in SingleChanges :
                      Update(changes, [defined |-> FALSE, ops |-> <<>>])
  \/ Constructed /\ Remove([defined |-> FALSE, ops |-> <<>>])

SpecCtor == InitCtor /\ [][NextCtor]_vars

(***************************************************************************)
(* C14  Construction-time validation: the constructor throws a             *)
(* DatabaseError exactly when the pattern list is undefined or one of its  *)
(* patterns lacks pk, lacks sk, has a key other than pk/sk/fields/when or  *)
(* has a `when` that is not a function; otherwise it keeps every pattern,  *)
(* and add, update and remove run only on a validated list and never end   *)
(* in a configuration error.                                               *)
(***************************************************************************)
Malformed(config) ==
  \/ "pk" \notin config.has
  \/ "sk" \notin config.has
  \/ config.has \ ConfigKeys # {}
  \/ "when" \in config.has /\ config.when \notin Functions

CtorValidation ==
  ctor # NotConstructed =>
    LET bad == ~ctor.defined \/ \E i \in 1..Len(ctor.configs) : Malformed(ctor.configs[i])
    IN /\ bad <=> ctor.error.thrown = "DatabaseError"
       /\ ~bad <=> ctor.error = NoError
       /\ bad => lastCall = NoCall
       /\ ~bad =>
            /\ Len(keys) = Len(ctor.configs)
            /\ \A i \in 1..Len(keys) :
                 /\ keys[i].pk = ctor.configs[i].pk
                 /\ keys[i].sk = ctor.configs[i].sk
                 /\ keys[i].when \in Functions \cup {Undefined}
            /\ lastCall.result \in {"none", "ok", "error", "skipped"}

\* a list whose first pattern is sound and whose second has an unknown key
\* is refused
CtorValidationWitness ==
  /\ ctor # NotConstructed
  /\ Len(ctor.configs) = 2
  /\ ~Malformed(ctor.configs[1])
  /\ ctor.configs[2].has = ConfigKeys \cup {"ttl"}
  /\ ctor.error = DatabaseError("Unknown access pattern config")
  /\ keys = <<>>

(***************************************************************************)
(* src/src/util.js: base64Encode, base64Decode, toCursor, fromCursor.      *)
(* A string is the sequence of its code points, a buffer a sequence of     *)
(* bytes, a base64 text a sequence of one-character strings, and an        *)
(* object the sequence of its members in insertion order.                  *)
(***************************************************************************)
\* the characters the attribute values of a token are made of:
\* a, the quote, the backslash, e-acute (U+00E9) and the cent sign (U+00A2)
TokenAlphabet == {97, 34, 92, 233, 162}

\* the longest attribute value of a token
MaxTokenLen == 2

StringsUpTo(n) == UNION {[1..k -> TokenAlphabet] : k \in 0..n}

\* the code points of "pk" and of "sk"
NamePk == <<112, 107>>
NameSk == <<115, 107>>

\* a store-native token: { pk: ..., sk: ... }
TokenOf(pk, sk) == <<[k |-> NamePk, v |-> pk], [k |-> NameSk, v |-> sk]>>

Tokens == {TokenOf(pk, sk) : pk \in StringsUpTo(1), sk \in StringsUpTo(MaxTokenLen)}

\* JSON.stringify of a string: quoted, with the quote and the backslash escaped
quote(str) ==
  <<34>> \o Flatten([i \in 1..Len(str) |->
                      IF str[i] \in {34, 92} THEN <<92, str[i]>> ELSE <<str[i]>>])
         \o <<34>>

\* JSON.stringify of an object whose values are strings
stringify(object) ==
  <<123>> \o Flatten([i \in 1..Len(object) |->
                       (IF i > 1 THEN <<44>> ELSE <<>>)
                         \o quote(object[i].k) \o <<58>> \o quote(object[i].v)])
          \o <<125>>

\* the UTF-8 bytes of a code point of the basic plane
utf8(cp) ==
  IF cp < 128 THEN <<cp>>
  ELSE IF cp < 2048 THEN <<192 + (cp \div 64), 128 + (cp % 64)>>
  ELSE <<224 + (cp \div 4096), 128 + ((cp \div 64) % 64), 128 + (cp % 64)>>

\* Buffer.from(string): the string's UTF-8 bytes
bufferFromString(str) == Flatten([i \in 1..Len(str) |-> utf8(str[i])])

Base64Chars ==
  <<
     "A", "B", "C", "D", "E", "F", "G", "H", "I", "J", "K", "L", "M", "N", "O", "P",
     "Q", "R", "S", "T", "U", "V", "W", "X", "Y", "Z", "a", "b", "c", "d", "e", "f",
     "g", "h", "i", "j", "k", "l", "m", "n", "o", "p", "q", "r", "s", "t", "u", "v",
     "w", "x", "y", "z", "0", "1", "2", "3", "4", "5", "6", "7", "8", "9", "+", "/"
  >>

RECURSIVE toBase64(_)
\* buffer.toString('base64')
toBase64(bytes) ==
  IF Len(bytes) = 0 THEN <<>>
  ELSE IF Len(bytes) = 1
    THEN <<Base64Chars[(bytes[1] \div 4) + 1],
           Base64Chars[(bytes[1] % 4) * 16 + 1], "=", "=">>
  ELSE IF Len(bytes) = 2
    THEN <<Base64Chars[(bytes[1] \div 4) + 1],
           Base64Chars[(bytes[1] % 4) * 16 + (bytes[2] \div 16) + 1],
           Base64Chars[(bytes[2] % 16) * 4 + 1], "=">>
  ELSE <<Base64Chars[(bytes[1] \div 4) + 1],
         Base64Chars[(bytes[1] % 4) * 16 + (bytes[2] \div 16) + 1],
         Base64Chars[(bytes[2] % 16) * 4 + (bytes[3] \div 64) + 1],
         Base64Chars[(bytes[3] % 64) + 1]>>
         \o toBase64(SubSeq(bytes, 4, Len(bytes)))

\* the six bits a base64 character stands for
sextet(c) == (CHOOSE i \in 1..64 : Base64Chars[i] = c) - 1

RECURSIVE fromSextets(_)
fromSextets(six) ==
  IF Len(six) < 2 THEN <<>>
  ELSE IF Len(six) = 2
    THEN <<six[1] * 4 + (six[2] \div 16)>>
  ELSE IF Len(six) = 3
    THEN <<six[1] * 4 + (six[2] \div 16), (six[2] % 16) * 16 + (six[3] \div 4)>>
  ELSE <<six[1] * 4 + (six[2] \div 16), (six[2] % 16) * 16 + (six[3] \div 4),
         (six[3] % 4) * 64 + six[4]>>
         \o fromSextets(SubSeq(six, 5, Len(six)))

\* Buffer.from(text, 'base64'): characters outside the alphabet are skipped
bufferFromBase64(text) ==
  LET chars == SelectSeq(text, LAMBDA c : \E i \in 1..64 : Base64Chars[i] = c)
  IN fromSextets([i \in 1..Len(chars) |-> sextet(chars[i])])

\* buffer.toString('ascii'): each byte with its highest bit unset
toAscii(bytes) == [i \in 1..Len(bytes) |-> bytes[i] % 128]

base64Encode(data) == toBase64(bufferFromString(data))

base64Decode(data) == toAscii(bufferFromBase64(data))

SyntaxError == [ok |-> FALSE, value |-> <<>>, next |-> 0]

\* the character a one-letter escape stands for, 0 when it is no escape
unescaped(c) ==
  CASE c = 34 -> 34 [] c = 92 -> 92 [] c = 47 -> 47 [] c = 98 -> 8
    [] c = 102 -> 12 [] c = 110 -> 10 [] c = 114 -> 13 [] c = 116 -> 9
    [] OTHER -> 0

RECURSIVE parseString(_, _, _)
\* JSON.parse of a string literal from the character after its opening quote
parseString(text, i, acc) ==
  IF i > Len(text) THEN SyntaxError
  ELSE IF text[i] = 34 THEN [ok |-> TRUE, value |-> acc, next |-> i + 1]
  ELSE IF text[i] < 32 THEN SyntaxError
  ELSE IF text[i] = 92
    THEN IF i + 1 <= Len(text) /\ unescaped(text[i + 1]) # 0
           THEN parseString(text, i + 2, Append(acc, unescaped(text[i + 1])))
           ELSE SyntaxError
  ELSE parseString(text, i + 1, Append(acc, text[i]))

RECURSIVE parseMembers(_, _, _)
\* JSON.parse of the members of an object whose values are strings
parseMembers(text, i, acc) ==
  IF i > Len(text) \/ text[i] # 34 THEN SyntaxError
  ELSE LET name == parseString(text, i + 1, <<>>)
       IN IF ~name.ok \/ name.next + 1 > Len(text)
               \/ text[name.next] # 58 \/ text[name.next + 1] # 34
            THEN SyntaxError
          ELSE LET val == parseString(text, name.next + 2, <<>>)
                   all == Append(acc, [k |-> name.value, v |-> val.value])
               IN IF ~val.ok \/ val.next > Len(text) THEN SyntaxError
                  ELSE IF text[val.next] = 125
                    THEN IF val.next = Len(text)
                           THEN [ok |-> TRUE, value |-> all, next |-> val.next + 1]
                           ELSE SyntaxError
                  ELSE IF text[val.next] = 44
                    THEN parseMembers(text, val.next + 1, all)
                  ELSE SyntaxError

\* JSON.parse of the text of an object
parse(text) ==
  IF Len(text) < 2 \/ text[1] # 123 THEN SyntaxError
  ELSE IF text[2] = 125
    THEN IF Len(text) = 2 THEN [ok |-> TRUE, value |-> <<>>, next |-> 3]
         ELSE SyntaxError
  ELSE parseMembers(text, 2, <<>>)

toCursor(data) == base64Encode(stringify(data))

\* the parsed token, or the SyntaxError JSON.parse throws
fromCursor(data) == parse(base64Decode(data))

ToCursor(token) ==
  /\ codec' = [op |-> "toCursor", token |-> token, cursor |-> toCursor(token)]
  /\ UNCHANGED <<keys, entity, store, lastCall, transactLimit, txVars,
                 ctor, pager, filt, scan, appVars>>

FromCursor ==
  /\ codec.op = "toCursor"
  /\ codec' = [op |-> "fromCursor", token |-> codec.token, cursor |-> codec.cursor,
               decoded |-> fromCursor(codec.cursor)]
  /\ UNCHANGED <<keys, entity, store, lastCall, transactLimit, txVars,
                 ctor, pager, filt, scan, appVars>>

NextCursor ==
  \/ \E token \in Tokens : ToCursor(token)
  \/ FromCursor

SpecCursor == InitCtor /\ [][NextCursor]_vars

(***************************************************************************)
(* C17  Cursor round trip: fromCursor(toCursor(t)) is t for every token t, *)
(* whatever characters its attribute values hold, and toCursor of the      *)
(* decoded token is the cursor again.                                      *)
(***************************************************************************)
CursorRoundTrip ==
  codec.op = "fromCursor" =>
    /\ codec.decoded.ok
    /\ codec.decoded.value = codec.token
    /\ toCursor(codec.decoded.value) = codec.cursor

\* tokens of 7-bit characters do make the round trip
AsciiRoundTrip ==
  (codec.op = "fromCursor"
     /\ \A i \in 1..Len(codec.token) :
          \A j \in 1..Len(codec.token[i].v) : codec.token[i].v[j] < 128) =>
    /\ codec.decoded.ok
    /\ codec.decoded.value = codec.token
    /\ toCursor(codec.decoded.value) = codec.cursor

(***************************************************************************)
(* SpecQuery: a caller reads one partition with DynamoDB.query, page by    *)
(* page, handing each returned cursor to the next call.  The store keeps   *)
(* the items of a partition in the order of the UTF-8 bytes of their sort  *)
(* keys and resumes after ExclusiveStartKey.                               *)
(***************************************************************************)
RECURSIVE lessBytes(_, _)
\* the store's order of two binary strings
lessBytes(a, b) ==
  IF b = <<>> THEN FALSE
  ELSE IF a = <<>> THEN TRUE
  ELSE IF a[1] # b[1] THEN a[1] < b[1]
  ELSE lessBytes(Tail(a), Tail(b))

before(x, y) == lessBytes(bufferFromString(x), bufferFromString(y))

RECURSIVE sortedKeys(_)
\* a set of sort keys in the store's order
sortedKeys(S) ==
  IF S = {} THEN <<>>
  ELSE LET first == CHOOSE x \in S : \A y \in S : x = y \/ before(x, y)
       IN <<first>> \o sortedKeys(S \ {first})

\* the partition key of the query: "a"
QueryPk == <<97>>

\* the sort keys of the partition: a, b, e-acute, a e-acute, cent
SortKeys == {<<97>>, <<98>>, <<233>>, <<97, 233>>, <<162>>}

\* the `limit` option of the calls
Limits == {1, 2}

\* the pages a caller asks for at most
MaxPages == 4

NoCursor == [defined |-> FALSE, value |-> <<>>]

\* the value of an object's member, the empty string when it has none
member(object, name) ==
  IF \E i \in 1..Len(object) : object[i].k = name
    THEN object[CHOOSE i \in 1..Len(object) :
                  /\ object[i].k = name
                  /\ \A j \in (i + 1)..Len(object) : object[j].k # name].v
    ELSE <<>>

\* client.query: the sort keys of the partition after ExclusiveStartKey, at
\* most Limit of them, and LastEvaluatedKey when Limit stopped the read
storeQuery(table, pk, limit, start) ==
  LET all   == sortedKeys({item.sk : item \in {i \in table : i.pk = pk}})
      after == IF start.defined
                 THEN SelectSeq(all, LAMBDA k : before(member(start.value, NameSk), k))
                 ELSE all
      Items == SubSeq(after, 1, Min(limit, Len(after)))
  IN [Items |-> Items,
      LastEvaluatedKey |->
        IF Len(Items) = limit
          THEN [defined |-> TRUE, value |-> TokenOf(pk, Items[Len(Items)])]
          ELSE NoCursor]

\* `if (cursor) params.ExclusiveStartKey = fromCursor(cursor)`
startKey(cursor) ==
  IF cursor.defined
    THEN [ok |-> fromCursor(cursor.value).ok, defined |-> TRUE,
          value |-> fromCursor(cursor.value).value]
    ELSE [ok |-> TRUE, defined |-> FALSE, value |-> <<>>]

\* query(pk, undefined, { limit, cursor }): the result, or the error thrown
query(table, pk, limit, cursor) ==
  LET start == startKey(cursor)
      data  == storeQuery(table, pk, limit, start)
  IN IF ~start.ok
       THEN [error |-> "SyntaxError", items |-> <<>>, cursor |-> NoCursor,
             marker |-> NoCursor]
       ELSE [error |-> "", items |-> data.Items,
             cursor |-> IF data.LastEvaluatedKey.defined
                          THEN [defined |-> TRUE,
                                value |-> toCursor(data.LastEvaluatedKey.value)]
                          ELSE NoCursor,
             marker |-> data.LastEvaluatedKey]

\* pager: the limit of the calls, the last result, the items of all pages
FirstPage(limit) ==
  /\ pager = [op |-> "none"]
  /\ pager' = [op |-> "query", limit |-> limit, pages |-> 1,
               last |-> query(store, QueryPk, limit, NoCursor),
               seen |-> query(store, QueryPk, limit, NoCursor).items]
  /\ UNCHANGED <<keys, entity, store, lastCall, transactLimit, txVars,
                 ctor, codec, filt, scan, appVars>>

NextPage ==
  /\ pager # [op |-> "none"]
  /\ pager.last.error = ""
  /\ pager.last.cursor.defined
  /\ pager.pages < MaxPages
  /\ LET result == query(store, QueryPk, pager.limit, pager.last.cursor)
     IN pager' = [pager EXCEPT !.pages = @ + 1, !.last = result,
                               !.seen = @ \o result.items]
  /\ UNCHANGED <<keys, entity, store, lastCall, transactLimit, txVars,
                 ctor, codec, filt, scan, appVars>>

Partitions == {{[pk |-> QueryPk, sk |-> k] : k \in S} : S \in SUBSET SortKeys}

InitQuery ==
  /\ keys = <<>>
  /\ entity = {}
  /\ store \in Partitions
  /\ lastCall = NoCall
  /\ transactLimit = DefaultTransactLimit
  /\ TxIdle
  /\ SvcIdle

NextQuery ==
  \/ \E limit \in Limits : FirstPage(limit)
  \/ NextPage

SpecQuery == InitQuery /\ [][NextQuery]_vars

(***************************************************************************)
(* C16  Pagination: a result carries a cursor exactly when the store gave  *)
(* a continuation marker; the caller that follows the cursors from the     *)
(* first page gets the items of the partition in order, none skipped and   *)
(* none repeated, no call fails, and the result without a cursor ends the  *)
(* listing with every item seen.                                           *)
(***************************************************************************)
Matching == sortedKeys({item.sk : item \in store})

Paged == pager # [op |-> "none"]

Pagination ==
  Paged =>
    /\ pager.last.error = ""
    /\ pager.last.cursor.defined <=> pager.last.marker.defined
    /\ Len(pager.seen) <= Len(Matching)
    /\ pager.seen = SubSeq(Matching, 1, Len(pager.seen))
    /\ ~pager.last.cursor.defined => pager.seen = Matching

\* the sort keys of the partition are all of 7-bit characters
AsciiPartition ==
  \A item \in store : \A j \in 1..Len(item.sk) : item.sk[j] < 128

\* on partitions of 7-bit keys the listing is exact
PaginationAscii == AsciiPartition => Pagination

(***************************************************************************)
(* SpecFilter: the `filters` option of DynamoDB.query.  A filter is a text *)
(* "field criteria value"; texts are sequences of one-character strings.   *)
(***************************************************************************)
RECURSIVE split(_, _)
\* text.split(' '), cur the piece being read
split(text, cur) ==
  IF text = <<>> THEN <<cur>>
  ELSE IF text[1] = " " THEN <<cur>> \o split(Tail(text), <<>>)
  ELSE split(Tail(text), Append(cur, text[1]))

RECURSIVE join(_)
\* pieces.join(' ')
join(pieces) ==
  IF pieces = <<>> THEN <<>>
  ELSE IF Len(pieces) = 1 THEN pieces[1]
  ELSE pieces[1] \o <<" ">> \o join(Tail(pieces))

Digits == <<"0", "1", "2", "3", "4", "5", "6", "7", "8", "9">>

RECURSIVE digitsValue(_, _)
\* the number a run of decimal digits stands for
digitsValue(text, acc) ==
  IF text = <<>> THEN acc
  ELSE digitsValue(Tail(text),
                   acc * 10 + (CHOOSE d \in 0..9 : Digits[d + 1] = text[1]))

RECURSIVE trim(_)
\* the text without its leading and trailing spaces
trim(text) ==
  IF text # <<>> /\ text[1] = " " THEN trim(Tail(text))
  ELSE IF text # <<>> /\ text[Len(text)] = " "
    THEN trim(SubSeq(text, 1, Len(text) - 1))
  ELSE text

\* a signed run of decimal digits
isNumeral(text) ==
  LET body == IF text # <<>> /\ text[1] = "-" THEN Tail(text) ELSE text
  IN body # <<>> /\ \A i \in 1..Len(body) : \E d \in 1..10 : Digits[d] = body[i]

numeralValue(text) ==
  IF text[1] = "-" THEN 0 - digitsValue(Tail(text), 0) ELSE digitsValue(text, 0)

\* Number(text) for texts of digits, minus signs, spaces and letters: blank
\* text is 0, a numeral its value, anything else NaN
Number(text) ==
  IF trim(text) = <<>> THEN [nan |-> FALSE, n |-> 0]
  ELSE IF isNumeral(trim(text)) THEN [nan |-> FALSE, n |-> numeralValue(trim(text))]
  ELSE [nan |-> TRUE, n |-> 0]

TextTrue  == <<"t", "r", "u", "e">>
TextFalse == <<"f", "a", "l", "s", "e">>

BoolValue(b) == [type |-> "boolean", b |-> b, n |-> 0, s |-> <<>>]
NumValue(n)  == [type |-> "number", b |-> FALSE, n |-> n, s |-> <<>>]
StrValue(s)  == [type |-> "string", b |-> FALSE, n |-> 0, s |-> s]

\* `const asNumber = Number(value); if (asNumber) value = asNumber`
castNumber(value) ==
  IF ~Number(value).nan /\ Number(value).n # 0
    THEN NumValue(Number(value).n)
    ELSE StrValue(value)

\* the body of filters.map for one filter: the names and the value it binds
bindFilter(filter) ==
  LET pieces == split(filter, <<>>)
      field  == pieces[1]
      value  == castNumber(join(SubSeq(pieces, 3, Len(pieces))))
  IN [field |-> field, criteria |-> pieces[2],
      value |-> IF value = StrValue(TextTrue) THEN BoolValue(TRUE)
                ELSE IF value = StrValue(TextFalse) THEN BoolValue(FALSE)
                ELSE value]

\* the longest value text of a filter, the literals true and false aside
MaxValueLen == 3

ValueTexts ==
  UNION {[1..k -> {"0", "7", "-", " ", "a"}] : k \in 0..MaxValueLen}
    \cup {TextTrue, TextFalse}

FilterHeads == {<<"a", "g", "e", " ", "=", " ">>, <<"a", "g", "e", " ", ">", " ">>}

\* query(pk, sk, { filters: [filter] }): what the call binds for the filter
QueryFiltered(head, text) ==
  /\ filt' = [op |-> "query", text |-> text, bound |-> bindFilter(head \o text)]
  /\ UNCHANGED <<keys, entity, store, lastCall, transactLimit, txVars,
                 ctor, codec, pager, scan, appVars>>

NextFilter == \E head \in FilterHeads, text \in ValueTexts : QueryFiltered(head, text)

SpecFilter == InitCtor /\ [][NextFilter]_vars

(***************************************************************************)
(* C19  Filter value coercion: the value bound for a filter is the boolean *)
(* when its text is the literal true or false, the number when its text is *)
(* a numeral (zero and negative numerals included), and the text itself,   *)
(* spaces included, when the text is no number at all.                     *)
(***************************************************************************)
FilterCoercion ==
  filt # [op |-> "none"] =>
    /\ filt.bound.field = <<"a", "g", "e">>
    /\ filt.text = TextTrue => filt.bound.value = BoolValue(TRUE)
    /\ filt.text = TextFalse => filt.bound.value = BoolValue(FALSE)
    /\ isNumeral(filt.text) => filt.bound.value = NumValue(numeralValue(filt.text))
    /\ (Number(filt.text).nan /\ filt.text \notin {TextTrue, TextFalse}) =>
         filt.bound.value = StrValue(filt.text)

\* the coercion holds for every text except the numerals of value zero
FilterCoercionNonZero ==
  (filt # [op |-> "none"] /\ ~(isNumeral(filt.text) /\ numeralValue(filt.text) = 0)) =>
    FilterCoercion

(***************************************************************************)
(* SpecScan: DynamoDB.export and DynamoDB.truncate, one turn of their      *)
(* `while (!end)` loop per step, with no other writer.                     *)
(***************************************************************************)
\* the items a table can hold, in the order a scan returns them
ScanOrder ==
  <<[pk |-> "a", sk |-> "1"], [pk |-> "a", sk |-> "2"],
    [pk |-> "b", sk |-> "1"], [pk |-> "b", sk |-> "2"],
    [pk |-> "c", sk |-> "1"]>>

\* the items one scan page holds at most
PageSize == 2

\* the turns of the loop that are followed
MaxRounds == 3

\* client.scan: the items after position `start` (0: from the beginning), a
\* page of them, and LastEvaluatedKey (a position, 0: none) when more remain
storeScan(table, start) ==
  LET rest == SelectSeq([i \in 1..Len(ScanOrder) |-> i],
                        LAMBDA i : i > start /\ ScanOrder[i] \in table)
      page == SubSeq(rest, 1, Min(PageSize, Len(rest)))
  IN [Items |-> [i \in 1..Len(page) |-> ScanOrder[page[i]]],
      LastEvaluatedKey |-> IF Len(rest) > Len(page) THEN page[Len(page)] ELSE 0]

\* `const params = { TableName: this.table }`: no ExclusiveStartKey
scanParams(lastKey) == 0

\* a call of export() or truncate() enters its loop
StartScan(op) ==
  /\ scan = [op |-> "none"]
  /\ scan' = [op |-> op, end |-> FALSE, items |-> <<>>, lastKey |-> 0,
              rounds |-> 0, returned |-> FALSE]
  /\ UNCHANGED <<keys, entity, store, lastCall, transactLimit, txVars,
                 ctor, codec, pager, filt, appVars>>

\* one turn of the loop: scan, note the end, then collect or delete the page
ScanPage ==
  /\ scan # [op |-> "none"]
  /\ ~scan.end
  /\ scan.rounds < MaxRounds
  /\ LET data == storeScan(store, scanParams(scan.lastKey))
     IN /\ scan' = [scan EXCEPT
                      !.end = (data.LastEvaluatedKey = 0),
                      !.lastKey = data.LastEvaluatedKey,
                      !.rounds = @ + 1,
                      !.items = IF scan.op = "export" THEN @ \o data.Items ELSE @]
        /\ store' = IF scan.op = "truncate"
                      THEN store \ Range(data.Items)
                      ELSE store
  /\ UNCHANGED <<keys, entity, lastCall, transactLimit, txVars,
                 ctor, codec, pager, filt, appVars>>

\* the loop is left and the call returns
ScanReturn ==
  /\ scan # [op |-> "none"]
  /\ scan.end
  /\ ~scan.returned
  /\ scan' = [scan EXCEPT !.returned = TRUE]
  /\ UNCHANGED <<keys, entity, store, lastCall, transactLimit, txVars,
                 ctor, codec, pager, filt, appVars>>

InitScan ==
  /\ keys = <<>>
  /\ entity = {}
  /\ store \in SUBSET Range(ScanOrder)
  /\ lastCall = NoCall
  /\ transactLimit = DefaultTransactLimit
  /\ TxIdle
  /\ SvcIdle

NextScan ==
  \/ \E op \in {"export", "truncate"} : StartScan(op)
  \/ ScanPage
  \/ ScanReturn

SpecScan == InitScan /\ [][NextScan]_vars

(***************************************************************************)
(* C18  Maintenance scans run to completion: export collects every item    *)
(* of the table exactly once however many pages the table spans, and       *)
(* leaves its loop after the last page; truncate returns with the table    *)
(* empty.                                                                  *)
(***************************************************************************)
ScansComplete ==
  /\ scan.op = "export" =>
       /\ \A i, j \in 1..Len(scan.items) : scan.items[i] = scan.items[j] => i = j
       /\ scan.returned => Range(scan.items) = store
       /\ (scan.rounds >= 1 /\ scan.rounds * PageSize >= Cardinality(store)) =>
            scan.end
  /\ scan.op = "truncate" =>
       /\ scan.returned => store = {}
       /\ (scan.rounds >= 1 /\ store = {}) => scan.end

\* truncate empties the table, and export is exact on a table of one page
ScansCompleteOnePage ==
  (scan.op = "truncate" \/ Cardinality(store) <= PageSize) => ScansComplete

(***************************************************************************)
(* SpecBatch: DynamoDB.putBatch.  A list over the ceiling is chunked and   *)
(* every chunk is a putBatch of its own, all started by the same           *)
(* `chunks.map` before any answer arrives.                                 *)
(***************************************************************************)
\* one batchWrite in flight: `items.map(item => ({ PutRequest: { Item: item } }))`
newBatchWrite(items) ==
  [params |-> [i \in 1..Len(items) |-> [PutRequest |-> [Item |-> items[i]]]],
   pc |-> "inflight", promise |-> Pending]

\* the batchWrite calls a putBatch starts: one per chunk, or one for the list
batchWritesOf(items, limit) ==
  IF overLimit(items, limit)
    THEN [i \in 1..Len(chunk(items, limit)) |-> newBatchWrite(chunk(items, limit)[i])]
    ELSE <<newBatchWrite(items)>>

\* the lists given to putBatch: two to five items of distinct keys
PutLists ==
  {SubSeq(<<NoteItem(KeyA, "x"), NoteItem(KeyB, "x"), NoteItem(KeyC, "x"),
            NoteItem(KeyD, "x"), NoteItem(KeyA, "y")>>, a, b) :
     a \in 1..2, b \in 2..5}

PutBatch(c, items) ==
  /\ batch[c] = <<>>
  /\ batch' = [batch EXCEPT ![c] = items]
  /\ inv' = [inv EXCEPT ![c] = batchWritesOf(items, transactLimit)]
  /\ UNCHANGED <<store, settled, transactLimit, collVars, svcVars, appVars>>

\* the store answers one batchWrite: the puts are made, or the call fails
\* and the .catch throws DatabaseError(error.message)
BatchWriteAnswer(c, i, answer) ==
  /\ i \in 1..Len(inv[c])
  /\ inv[c][i].pc = "inflight"
  /\ LET next == [inv[c] EXCEPT ![i].pc = "done",
                                ![i].promise = IF answer = "ok" THEN Resolved
                                               ELSE Rejected(answer)]
     IN /\ inv' = [inv EXCEPT ![c] = next]
        /\ settled' = [settled EXCEPT ![c] = settle(settled[c], next, i)]
  /\ store' = IF answer = "ok"
                THEN ApplyBatch(store, [j \in 1..Len(inv[c][i].params) |->
                                         PutOp(inv[c][i].params[j].PutRequest.Item)])
                ELSE store
  /\ UNCHANGED <<batch, transactLimit, collVars, svcVars, appVars>>

NextBatch ==
  \/ \E c \in Callers, items \in PutLists : PutBatch(c, items)
  \/ \E c \in Callers, i \in ChunkIndexes, answer \in {"ok", OtherMessage} :
       BatchWriteAnswer(c, i, answer)

SpecBatch == InitTx /\ [][NextBatch]_vars

(***************************************************************************)
(* C20  putBatch of a list over the ceiling sends chunks of at most        *)
(* transactLimit items that together hold every item once, all in flight   *)
(* before any answer; the call succeeds only if every chunk succeeded, and *)
(* fails with the DatabaseError of a failed chunk as soon as one fails.    *)
(***************************************************************************)
PutBatchChunks ==
  \A c \in Started :
    LET n == Len(inv[c])
        failed == {i \in 1..n : inv[c][i].promise.state = "rejected"}
    IN /\ Flatten([i \in 1..n |->
                    [j \in 1..Len(inv[c][i].params) |->
                       inv[c][i].params[j].PutRequest.Item]]) = batch[c]
       /\ \A i \in 1..n : Len(inv[c][i].params) \in 1..transactLimit
       /\ overLimit(batch[c], transactLimit) <=> n > 1
       /\ \A i \in 1..n : inv[c][i].pc \in {"inflight", "done"}
       /\ settled[c].state = "resolved" <=>
            \A i \in 1..n : inv[c][i].promise.state = "resolved"
       /\ settled[c].state = "rejected" <=> failed # {}
       /\ settled[c].state = "rejected" =>
            \E i \in failed : settled[c] = inv[c][i].promise
       /\ settled[c].state = "resolved" =>
            \A item \in Range(batch[c]) : ItemsAt(store, KeyOf(item)) # {}

\* a list of five items went out in three chunks; one failed, so the call
\* has failed while another chunk is still in flight and a third was written
PutBatchChunksWitness ==
  \E c \in Started :
    /\ Len(batch[c]) = 5
    /\ Len(inv[c]) = 3
    /\ settled[c] = Rejected(OtherMessage)
    /\ \E i \in 1..3 : inv[c][i].pc = "inflight"
    /\ \E i \in 1..3 : inv[c][i].promise = Resolved

(***************************************************************************)
(* SpecPartition: the partitioner of src/src/service/dynamo.js.  SHA-1 is  *)
(* taken as an arbitrary function to hex strings: a key is drawn with the  *)
(* first four characters of its hex digest.                                *)
(***************************************************************************)
\* hex characters a digest is drawn from
HexSample == {"0", "9", "a", "f"}

\* the first four characters of hash(key), for the keys drawn
DigestHeads == [1..4 -> HexSample]

\* the values of `partitions`
PartitionCounts == {1, 2, 3, 16, 1000}

\* char.charCodeAt(0) of a hex character
charCodeAt(char) ==
  IF \E d \in 0..9 : Digits[d + 1] = char
    THEN 48 + (CHOOSE d \in 0..9 : Digits[d + 1] = char)
    ELSE 97 + (CHOOSE d \in 0..5 : <<"a", "b", "c", "d", "e", "f">>[d + 1] = char)

\* ((a << 24) | (b << 16) | (c << 8) | d) >>> 0 for character codes of hex
\* digits: all are below 128, so the shifted values have no bit in common,
\* their OR is their sum, it is below 2^31 and >>> 0 leaves it as it is
hashValueHash(a, b, c, d) == a * 16777216 + b * 65536 + c * 256 + d

\* hashValue: x = digest(key), then hashValueHash(x[3], x[2], x[1], x[0])
hashValue(head) ==
  hashValueHash(charCodeAt(head[4]), charCodeAt(head[3]),
                charCodeAt(head[2]), charCodeAt(head[1]))

\* a variant of partition that forgets the modulo
partitionWhole(head, partitions) == hashValue(head)

\* partition(key, partitions) for a key whose digest starts with `head`
partition(head, partitions) == hashValue(head) % partitions

\* a call of partition; a behaviour follows the calls made for one key
Partition(head, partitions) ==
  /\ IF calc.op = "none" THEN TRUE ELSE calc.head = head
  /\ calc' = [op |-> "partition", head |-> head, partitions |-> partitions,
              value |-> hashValue(head),
              buckets |-> (IF calc.op = "partition" /\ calc.partitions = partitions
                             THEN calc.buckets ELSE {})
                            \cup {partition(head, partitions)}]
  /\ UNCHANGED <<keys, entity, store, lastCall, transactLimit, txVars, svcVars,
                 job, mig, pub>>

NextPartition ==
  \E head \in DigestHeads, partitions \in PartitionCounts : Partition(head, partitions)

SpecPartition == InitCtor /\ [][NextPartition]_vars

(***************************************************************************)
(* C21  Partitioner range and stability: the bucket is an integer in       *)
(* [0, partitions), the value combined from the four digest values is in   *)
(* [0, 2^32), and calls with the same key and partition count give one     *)
(* bucket.                                                                 *)
(***************************************************************************)
PartitionRange ==
  calc.op = "partition" =>
    /\ \A b \in calc.buckets : b \in 0..(calc.partitions - 1)
    /\ calc.value >= 0
    /\ calc.value \div 65536 < 65536
    /\ Cardinality(calc.buckets) = 1

\* a key whose combined value is far above the partition count
PartitionRangeWitness ==
  /\ calc.op = "partition"
  /\ calc.partitions = 16
  /\ calc.head = <<"f", "f", "a", "9">>
  /\ calc.value > 16777216
  /\ calc.buckets = {6}

(***************************************************************************)
(* SpecExpression: DynamoDB.updateExpression on objects that may hold pk   *)
(* and sk.                                                                 *)
(***************************************************************************)
\* the objects given: any of five attributes, each with one of two values
ExpressionObjects ==
  UNION {[S -> {"x", "y"}] : S \in SUBSET {"pk", "sk", "name", "email", "note"}}

UpdateExpression(object) ==
  /\ calc' = [op |-> "updateExpression", object |-> object,
              result |-> updateExpression(object)]
  /\ UNCHANGED <<keys, entity, store, lastCall, transactLimit, txVars, svcVars,
                 job, mig, pub>>

NextExpression == \E object \in ExpressionObjects : UpdateExpression(object)

SpecExpression == InitCtor /\ [][NextExpression]_vars

(***************************************************************************)
(* C22  updateExpression sets exactly the fields of the change set other   *)
(* than pk and sk, each once, each under the placeholders made of its own  *)
(* name, and never sets pk or sk.                                          *)
(***************************************************************************)
ExpressionSetsFields ==
  calc.op = "updateExpression" =>
    LET fields == (DOMAIN calc.object) \ {"pk", "sk"}
        result == calc.result
    IN /\ SetBy(result) = {<<f, calc.object[f]>> : f \in fields}
       /\ Len(result.UpdateExpression) = Cardinality(fields)
       /\ \A c \in Range(result.UpdateExpression) :
            \E f \in fields :
              /\ c.name = "#" \o f
              /\ c.value = ":" \o f
              /\ result.ExpressionAttributeNames[c.name] = f
       /\ {result.ExpressionAttributeNames[n] :
             n \in DOMAIN result.ExpressionAttributeNames} = fields
       /\ DOMAIN result.ExpressionAttributeValues = {":" \o f : f \in fields}

\* a change set with both keys and two fields gives two clauses
ExpressionSetsFieldsWitness ==
  /\ calc.op = "updateExpression"
  /\ DOMAIN calc.object = {"pk", "sk", "name", "note"}
  /\ Len(calc.result.UpdateExpression) = 2
  /\ calc.result.ExpressionAttributeValues[":note"] = "y"

(***************************************************************************)
(* SpecMalformed: query called with cursor strings a caller made up or     *)
(* damaged, next to the cursors toCursor gives.                            *)
(***************************************************************************)
\* the characters of "e30=" (the base64 text of "{}") and one character
\* outside the base64 alphabet
DamagedChars == {"e", "3", "0", "=", "!"}

\* the longest made-up cursor
MaxCursorLen == 4

\* the cursors toCursor gives for the tokens of an ASCII partition
IssuedCursors == {toCursor(TokenOf(QueryPk, sk)) : sk \in SortKeys}

CursorTexts ==
  IssuedCursors \cup UNION {[1..n -> DamagedChars] : n \in 0..MaxCursorLen}

\* one call query(pk, undefined, { limit: 1, cursor }) on a partition:
\* `if (cursor)` skips the empty string; sent tells whether client.query was called, start is the
\* ExclusiveStartKey of its parameters
QueryCursor(text) ==
  LET cursor == [defined |-> text # <<>>, value |-> text]
  IN /\ pager = [op |-> "none"]
     /\ pager' = [op |-> "cursor", given |-> text,
                  sent |-> startKey(cursor).ok,
                  start |-> startKey(cursor),
                  last |-> query(store, QueryPk, 1, cursor)]
     /\ UNCHANGED <<keys, entity, store, lastCall, transactLimit, txVars,
                    ctor, codec, filt, scan, appVars>>

NextMalformed == \E text \in CursorTexts : QueryCursor(text)

SpecMalformed == InitQuery /\ [][NextMalformed]_vars

(***************************************************************************)
(* C23  A malformed pagination token fails loudly: query called with a     *)
(* cursor string that is not the encoding of a native token fails before   *)
(* any request is sent to the store, and never proceeds with a corrupted   *)
(* or empty start key.                                                     *)
(***************************************************************************)
\* the encodings of native tokens: no encoding of a { pk, sk } token is as
\* short as MaxCursorLen characters
WellFormed(text) == \E t \in Tokens \cup {TokenOf(QueryPk, sk) : sk \in SortKeys} :
                       text = toCursor(t)

MalformedCursorFails ==
  (pager.op = "cursor" /\ ~WellFormed(pager.given)) =>
    /\ ~pager.sent
    /\ pager.last.error # ""

\* what the code does give: a text whose decoded bytes are not JSON stops the
\* call before the request, with the SyntaxError of JSON.parse
UnparsableCursorFails ==
  (pager.op = "cursor" /\ pager.given # <<>>
     /\ ~parse(base64Decode(pager.given)).ok) =>
    /\ ~pager.sent
    /\ pager.last.error = "SyntaxError"

UnparsableCursorFailsWitness ==
  /\ pager.op = "cursor"
  /\ pager.given = <<"e", "3", "!", "!">>
  /\ ~pager.sent

\* an issued cursor is decoded to its token and the request is sent
IssuedCursorSent ==
  /\ pager.op = "cursor"
  /\ pager.given \in IssuedCursors
  /\ pager.sent
  /\ pager.start.value # <<>>

\* "e30=" is the base64 text of "{}": the request is sent with an empty
\* ExclusiveStartKey
EmptyStartKeySent ==
  /\ pager.op = "cursor"
  /\ pager.given = <<"e", "3", "0", "=">>
  /\ pager.sent
  /\ pager.start.defined
  /\ pager.start.value = <<>>
  /\ pager.last.error = ""

(***************************************************************************)
(* C24  Item creation on a predicate becoming true: when update takes the  *)
(* entity from rejected to accepted by a pattern's predicate, the batch    *)
(* holds a Put of that pattern's item, the full projection of the merged   *)
(* entity at the keys resolved from the merged entity, also when neither   *)
(* key changes and when the changed field is not projected.                *)
(***************************************************************************)
BecomesAccepted(p) ==
  /\ p.when # Undefined
  /\ ~When(p.when, lastCall.data)
  /\ When(p.when, LastMerged)

CreatedOnAccept ==
  lastCall.op = "update" =>
    \A p \in Patterns :
      BecomesAccepted(p) =>
        \E i \in 1..Len(lastCall.ops) :
          lastCall.ops[i] = PutOp(addItem(p, LastMerged))

\* what the code does give: the Put is there when the change also moves the
\* pattern's key
CreatedOnAcceptKeyMoved ==
  lastCall.op = "update" =>
    \A p \in Patterns :
      (BecomesAccepted(p)
         /\ resolveKeys(p, lastCall.data) # resolveKeys(p, LastMerged)) =>
        \E i \in 1..Len(lastCall.ops) :
          lastCall.ops[i] = PutOp(addItem(p, LastMerged))

\* a pattern that becomes accepting with unchanged keys gets no Put
NoPutOnAccept ==
  /\ lastCall.op = "update"
  /\ \E p \in Patterns :
       /\ BecomesAccepted(p)
       /\ resolveKeys(p, lastCall.data) = resolveKeys(p, LastMerged)
       /\ \A i \in 1..Len(lastCall.ops) : lastCall.ops[i].kind # "Put"

\* a pattern that becomes accepting while its key moves gets its Put
PutOnAcceptKeyMoved ==
  /\ lastCall.op = "update"
  /\ \E p \in Patterns :
       /\ BecomesAccepted(p)
       /\ resolveKeys(p, lastCall.data) # resolveKeys(p, LastMerged)
       /\ \E i \in 1..Len(lastCall.ops) :
            lastCall.ops[i] = PutOp(addItem(p, LastMerged))

(***************************************************************************)
(* SpecFilters: the filter part of DynamoDB.query for a list of filters,   *)
(* and the items of a partition the store returns for the parameters.      *)
(***************************************************************************)
FieldAge  == <<"a", "g", "e">>
FieldSize == <<"s", "i", "z", "e">>

\* the filters of the calls: two fields, three comparisons, three numerals
FilterTexts ==
  {field \o <<" ">> \o criteria \o <<" ">> \o value :
     field \in {FieldAge, FieldSize},
     criteria \in {<<"=">>, <<"<">>, <<">">>},
     value \in {<<"1">>, <<"5">>, <<"9">>}}

\* the filters a call gives at most
MaxFilters == 2

FilterLists == UNION {[1..n -> FilterTexts] : n \in 1..MaxFilters}

\* params.ExpressionAttributeValues after filters.map: each filter assigns
\* `:field`, so the last filter of a field leaves its value there
filterValues(bound) ==
  [v \in {<<":">> \o bound[i].field : i \in 1..Len(bound)} |->
     bound[CHOOSE i \in 1..Len(bound) :
             /\ <<":">> \o bound[i].field = v
             /\ \A j \in (i + 1)..Len(bound) : bound[j].field # bound[i].field].value]

\* `if (filters) { ... }`: the names, the values and the conditions that
\* expressions.join(' and ') puts into FilterExpression
filterParams(filters) ==
  LET bound == [i \in 1..Len(filters) |-> bindFilter(filters[i])]
  IN [ExpressionAttributeNames |->
        [n \in {<<"#">> \o bound[i].field : i \in 1..Len(bound)} |-> Tail(n)],
      ExpressionAttributeValues |-> filterValues(bound),
      FilterExpression |->
        [i \in 1..Len(bound) |->
           [name |-> <<"#">> \o bound[i].field, criteria |-> bound[i].criteria,
            value |-> <<":">> \o bound[i].field]]]

\* the store's comparison of a numeric attribute with a bound value
compare(attr, criteria, value) ==
  /\ value.type = "number"
  /\ CASE criteria = <<"=">> -> attr = value.n
       [] criteria = <<"<">> -> attr < value.n
       [] criteria = <<">">> -> attr > value.n
       [] OTHER -> FALSE

\* the store's evaluation of FilterExpression on an item
satisfies(item, params) ==
  \A i \in 1..Len(params.FilterExpression) :
    LET c == params.FilterExpression[i]
    IN compare(item[params.ExpressionAttributeNames[c.name]], c.criteria,
               params.ExpressionAttributeValues[c.value])

\* the items of the partition: every pair of an age and a size
FilterItems == [{FieldAge, FieldSize} -> {0, 3, 7, 10}]

\* one call query(pk, sk, { filters }): the parameters and the items returned
QueryFilters(filters) ==
  /\ filt = [op |-> "none"]
  /\ filt' = [op |-> "filters", filters |-> filters,
              params |-> filterParams(filters),
              items |-> {item \in FilterItems : satisfies(item, filterParams(filters))}]
  /\ UNCHANGED <<keys, entity, store, lastCall, transactLimit, txVars,
                 ctor, codec, pager, scan, appVars>>

NextFilters == \E filters \in FilterLists : QueryFilters(filters)

SpecFilters == InitCtor /\ [][NextFilters]_vars

(***************************************************************************)
(* C25  Filters are ANDed: each filter of the list contributes its own     *)
(* condition with its own bound value, so the items returned are the items *)
(* that satisfy every filter, also when two filters name the same field.   *)
(***************************************************************************)
\* the item satisfies the filter as the caller wrote it
Meets(item, filter) ==
  compare(item[bindFilter(filter).field], bindFilter(filter).criteria,
          bindFilter(filter).value)

FiltersAnded ==
  filt.op = "filters" =>
    /\ Len(filt.params.FilterExpression) = Len(filt.filters)
    /\ \A i \in 1..Len(filt.filters) :
         LET c == filt.params.FilterExpression[i]
         IN /\ filt.params.ExpressionAttributeNames[c.name] = bindFilter(filt.filters[i]).field
            /\ c.criteria = bindFilter(filt.filters[i]).criteria
            /\ filt.params.ExpressionAttributeValues[c.value] = bindFilter(filt.filters[i]).value
    /\ filt.items = {item \in FilterItems :
                       \A i \in 1..Len(filt.filters) : Meets(item, filt.filters[i])}

DistinctFields ==
  \A i, j \in 1..Len(filt.filters) :
    i # j => bindFilter(filt.filters[i]).field # bindFilter(filt.filters[j]).field

\* what the code does give: the filters are ANDed when no two of them name
\* the same field
FiltersAndedDistinct == (filt.op = "filters" /\ DistinctFields) => FiltersAnded

FiltersAndedDistinctWitness ==
  /\ filt.op = "filters"
  /\ Len(filt.filters) = 2
  /\ DistinctFields
  /\ Cardinality(filt.items) = 2

\* "age > 5" with "age > 1": both conditions read the value 1 and an item of
\* age 3 is returned
SameFieldOverwritten ==
  /\ filt.op = "filters"
  /\ filt.filters = <<FieldAge \o <<" ", ">", " ", "5">>, FieldAge \o <<" ", ">", " ", "1">>>>
  /\ \E item \in filt.items : item[FieldAge] = 3

(***************************************************************************)
(* SpecRetry: one call of transactWrite with a batch within the ceiling,   *)
(* with the request of every attempt and the wait of every retry on        *)
(* record.  The chunks of a larger batch each run this same loop.          *)
(***************************************************************************)
\* the upper end of `Math.random() * (20 + 1)`
WaitCeiling == 20

\* Math.random() gives k / RandomSteps for a k in 0..RandomSteps - 1
RandomSteps == 42

Randoms == 0..(RandomSteps - 1)

\* `Math.floor(Math.random() * (20 + 1))` for Math.random() = k / RandomSteps
waitOf(k) == (k * (WaitCeiling + 1)) \div RandomSteps

\* a variant of requestOf that leaves out, on a retry, the first operation
requestOfRest(iv) == IF iv.attempts > 1 THEN Tail(iv.params) ELSE iv.params

\* `this.client.transactWrite(params)`: params is assembled once, before the
\* loop, and every attempt passes it on
requestOf(iv) == iv.params

RetryCaller == "c1"

\* transactWrite(ops) with a batch within the ceiling: one run of the loop
RetryTransactWrite(ops) ==
  /\ batch[RetryCaller] = <<>>
  /\ ~overLimit(ops, transactLimit)
  /\ batch' = [batch EXCEPT ![RetryCaller] = ops]
  /\ inv' = [inv EXCEPT ![RetryCaller] = invocationsOf(ops, transactLimit)]
  /\ UNCHANGED <<store, settled, transactLimit, collVars, svcVars, appVars>>

\* the head of the loop body; calc records the request when one is made
RetryAttempt(i) ==
  /\ i \in 1..Len(inv[RetryCaller])
  /\ inv[RetryCaller][i].pc = "loop"
  /\ ~inv[RetryCaller][i].success
  /\ LET iv   == beginAttempt(inv[RetryCaller][i])
         next == [inv[RetryCaller] EXCEPT ![i] = iv]
     IN /\ inv' = [inv EXCEPT ![RetryCaller] = next]
        /\ settled' = [settled EXCEPT
                         ![RetryCaller] = settle(settled[RetryCaller], next, i)]
        /\ calc' = IF iv.pc = "inflight"
                     THEN [op |-> "request", chunk |-> i, attempt |-> iv.attempts,
                           items |-> requestOf(iv)]
                     ELSE [op |-> "giveup", chunk |-> i, attempt |-> iv.attempts]
  /\ UNCHANGED <<store, batch, transactLimit, collVars, svcVars, job, mig, pub>>

\* the store's answer; after a conflict the catch draws the wait and sleeps
RetryRespond(i, answer, k) ==
  /\ i \in 1..Len(inv[RetryCaller])
  /\ inv[RetryCaller][i].pc = "inflight"
  /\ LET iv   == onAnswer(inv[RetryCaller][i], answer)
         next == [inv[RetryCaller] EXCEPT ![i] = iv]
     IN /\ inv' = [inv EXCEPT ![RetryCaller] = next]
        /\ settled' = [settled EXCEPT
                         ![RetryCaller] = settle(settled[RetryCaller], next, i)]
        /\ calc' = IF iv.pc = "sleep"
                     THEN [op |-> "wait", chunk |-> i, attempt |-> iv.attempts,
                           wait |-> waitOf(k)]
                     ELSE [op |-> "answer", chunk |-> i, attempt |-> iv.attempts]
  /\ store' = IF answer = "ok"
                THEN ApplyBatch(store, inv[RetryCaller][i].params) ELSE store
  /\ UNCHANGED <<batch, transactLimit, collVars, svcVars, job, mig, pub>>

NextRetry ==
  \/ \E ops \in TxBatches : RetryTransactWrite(ops)
  \/ \E i \in ChunkIndexes : RetryAttempt(i)
  \/ \E i \in ChunkIndexes, answer \in Answers, k \in Randoms :
       RetryRespond(i, answer, k)
  \/ \E i \in ChunkIndexes : Wake(RetryCaller, i)

SpecRetry == InitTx /\ [][NextRetry]_vars

(***************************************************************************)
(* C26  Every retry of transactWrite after a conflict resubmits the        *)
(* identical, complete operation list of the batch (same operations, same  *)
(* order, never a subset), and the wait before each retry is a whole       *)
(* number of milliseconds in 0..20.                                        *)
(***************************************************************************)
\* the operation list of the i-th invocation of the call
BatchOf(i) ==
  IF overLimit(batch[RetryCaller], transactLimit)
    THEN chunk(batch[RetryCaller], transactLimit)[i]
    ELSE batch[RetryCaller]

LongestWait == calc.op = "wait" /\ calc.wait = WaitCeiling /\ calc.attempt > 1

(***************************************************************************)
(* SpecShared: two callers share one DynamoCollection and its DynamoDB     *)
(* instance; each makes one call of add, update, remove or transactWrite,  *)
(* and the retry loops of the two calls interleave at their awaits.        *)
(***************************************************************************)
SharedEntity == [id |-> "u1", name |-> "Ann", email |-> "a@x.com"]

SharedBatch == <<PutOp([pk |-> "item#A", sk |-> "v", note |-> "x"]),
                 DeleteOp([pk |-> "item#B", sk |-> "v"])>>

SharedCalls ==
  {[op |-> "add", data |-> SharedEntity, changes |-> EmptyObject],
   [op |-> "update", data |-> SharedEntity, changes |-> [name |-> "Bob"]],
   [op |-> "remove", data |-> SharedEntity, changes |-> EmptyObject],
   [op |-> "transactWrite", data |-> EmptyObject, changes |-> EmptyObject]}

\* the operation list a call hands to transactWrite: add, update and remove
\* build it from this.keys and their arguments, in locals
opsOf(patterns, call) ==
  CASE call.op = "add" -> addOps(patterns, call.data)
    [] call.op = "update" ->
         updateOps(patterns, call.data, stripChanges(call.data, call.changes))
    [] call.op = "remove" -> removeOps(patterns, call.data)
    [] OTHER -> SharedBatch

\* a variant of attemptsSeen in which the counter is a field of the instance
attemptsShared(invs, c, i) ==
  LET all == {invs[d][1].attempts : d \in {e \in Callers : invs[e] # <<>>}}
  IN CHOOSE m \in all : \A n \in all : n <= m

\* `let attempts = 0`: the counter is a local of the invocation
attemptsSeen(invs, c, i) == invs[c][i].attempts

SharedCall(c, call) ==
  /\ batch[c] = <<>>
  /\ ~overLimit(opsOf(keys, call), transactLimit)
  /\ batch' = [batch EXCEPT ![c] = opsOf(keys, call)]
  /\ inv' = [inv EXCEPT ![c] = invocationsOf(opsOf(keys, call), transactLimit)]
  /\ calc' = [op |-> "shared",
              calls |-> [d \in Callers |->
                           IF d = c THEN call
                           ELSE IF calc.op = "none"
                             THEN [op |-> "none", data |-> EmptyObject,
                                   changes |-> EmptyObject]
                           ELSE calc.calls[d]]]
  /\ UNCHANGED <<store, settled, transactLimit, collVars, svcVars, job, mig, pub>>

SharedAttempt(c, i) ==
  /\ i \in 1..Len(inv[c])
  /\ inv[c][i].pc = "loop"
  /\ ~inv[c][i].success
  /\ LET next == [inv[c] EXCEPT
                    ![i] = beginAttempt([inv[c][i] EXCEPT
                                           !.attempts = attemptsSeen(inv, c, i)])]
     IN /\ inv' = [inv EXCEPT ![c] = next]
        /\ settled' = [settled EXCEPT ![c] = settle(settled[c], next, i)]
  /\ UNCHANGED <<store, batch, transactLimit, collVars, svcVars, appVars>>

NextShared ==
  \/ \E c \in Callers, call \in SharedCalls : SharedCall(c, call)
  \/ \E c \in Callers, i \in ChunkIndexes : SharedAttempt(c, i)
  \/ \E c \in Callers, i \in ChunkIndexes, answer \in Answers : Respond(c, i, answer)
  \/ \E c \in Callers, i \in ChunkIndexes : Wake(c, i)

SpecShared == InitTx /\ [][NextShared]_vars

(***************************************************************************)
(* C27  Shared instances hold no per-call state: under any interleaving of *)
(* add, update, remove and transactWrite calls on one shared collection    *)
(* and store instance, the pattern list and the store configuration never  *)
(* change, the retry counter of one call is never seen or changed by       *)
(* another, and each call emits the operation list it emits when run       *)
(* alone.                                                                  *)
(***************************************************************************)
\* the counter of an invocation counts its own requests, and one more when
\* it has given up
OwnCounter(iv) ==
  iv.attempts = iv.calls + (IF exhausted(iv.attempts) THEN 1 ELSE 0)

SharedStateless ==
  /\ [](\A c \in Started :
          /\ calc.op = "shared"
          /\ batch[c] = opsOf(<<PatProfile>>, calc.calls[c])
          /\ \A i \in 1..Len(inv[c]) :
               /\ inv[c][i].params = batch[c]
               /\ OwnCounter(inv[c][i]))
  /\ [][/\ keys' = keys
        /\ transactLimit' = transactLimit
        /\ \A c \in Started : batch'[c] = batch[c]
        /\ \A c, d \in Callers : c # d => (inv'[c] = inv[c] \/ inv'[d] = inv[d])
        /\ \A c \in Started : \A i \in 1..Len(inv[c]) :
             /\ inv'[c][i].params = inv[c][i].params
             /\ inv'[c][i].attempts \in {inv[c][i].attempts, inv[c][i].attempts + 1}]_vars

\* an update and a remove in flight together, one in its ninth attempt and
\* the other in its third
SharedStatelessWitness ==
  /\ calc.op = "shared"
  /\ calc.calls["c1"].op = "update" /\ calc.calls["c2"].op = "remove"
  /\ inv["c1"][1].attempts = 9 /\ inv["c1"][1].pc = "inflight"
  /\ inv["c2"][1].attempts = 3 /\ inv["c2"][1].pc = "sleep"
  /\ batch["c1"][1].kind = "Update" /\ batch["c2"][1].kind = "Delete"

(***************************************************************************)
(* SpecWorker: a job with retry set whose handler fails on every run:      *)
(* Worker.enqueue, Worker.work, Worker.retry and the delay tables.         *)
(***************************************************************************)
\* a number, or the undefined a function without a return statement gives
Delay(n)  == [defined |-> TRUE, n |-> n]
NoDelay   == [defined |-> FALSE, n |-> 0]

equalBackoffDelay(attempts) ==
  IF attempts = 1 THEN Delay(15)
  ELSE IF attempts = 2 THEN Delay(30)
  ELSE IF attempts = 3 THEN Delay(45)
  ELSE IF attempts = 4 THEN Delay(60)
  ELSE Delay(0)

steppedBackoffDelay(attempts) ==
  IF attempts < 4 THEN Delay(1)
  ELSE IF attempts < 15 THEN Delay(5)
  ELSE IF attempts < 61 THEN Delay(15)
  ELSE IF attempts < 121 THEN Delay(30)
  ELSE Delay(0)

steppedQuickBackoffDelay(attempts) ==
  IF attempts < 4 THEN Delay(1)
  ELSE IF attempts < 11 THEN Delay(3)
  ELSE IF attempts < 21 THEN Delay(10)
  ELSE Delay(0)

steppedLongBackoffDelay(attempts) ==
  IF attempts < 4 THEN Delay(1)
  ELSE IF attempts < 10 THEN Delay(86400)
  ELSE IF attempts < 15 THEN Delay(259200)
  ELSE IF attempts < 20 THEN Delay(604800)
  ELSE Delay(0)

\* `function exponentialBackoffDelay(attempts) {}`
exponentialBackoffDelay(attempts) == NoDelay

\* `if (!strategy) strategy = 'stepped'`
strategyOrDefault(strategy) == IF strategy = Undefined THEN "stepped" ELSE strategy

delayDuration(attempts, strategy) ==
  LET s == strategyOrDefault(strategy)
  IN IF s = "equal" THEN equalBackoffDelay(attempts)
     ELSE IF s = "stepped" THEN steppedBackoffDelay(attempts)
     ELSE IF s = "steppedQuick" THEN steppedQuickBackoffDelay(attempts)
     ELSE IF s = "steppedLong" THEN steppedLongBackoffDelay(attempts)
     ELSE IF s = "exponential" THEN exponentialBackoffDelay(attempts)
     ELSE Delay(0)

\* `delay === 0`
isZero(delay) == delay.defined /\ delay.n = 0

\* `if (!delay) { delay = 0; }`
delayOrZero(delay) == IF delay.defined THEN delay.n ELSE 0

\* the retryStrategy option of the calls; "linear" is no strategy of the code
Strategies ==
  {Undefined, "equal", "stepped", "steppedQuick", "steppedLong", "exponential",
   "linear"}

\* the runs of a handler the model follows
MaxRuns == 125

\* Worker.enqueue up to the hand-over of the job: to the morgue, to work()
\* at once, to the state machine that waits, or to the topic
enqueue(old, attempts, delay, retry, retryStrategy) ==
  IF attempts > 0 /\ ~retry
    THEN [old EXCEPT !.state = "morgue", !.attempts = attempts]
    ELSE [old EXCEPT
            !.state = "queued", !.attempts = attempts,
            !.delay = delayOrZero(delay),
            !.retryStrategy = strategyOrDefault(retryStrategy),
            !.via = IF old.isWorker /\ delayOrZero(delay) = 0 THEN "work"
                    ELSE IF delayOrZero(delay) > 0 THEN "stateMachine"
                    ELSE "topic"]

\* Worker.retry: count the attempt, look up the delay, bury or re-enqueue
retry(old) ==
  LET attempts == old.attempts + 1
      delay    == delayDuration(attempts, old.retryStrategy)
  IN IF isZero(delay)
       THEN [old EXCEPT !.state = "morgue", !.attempts = attempts]
       ELSE [enqueue(old, attempts, delay, old.retry, old.retryStrategy)
               EXCEPT !.retries = old.retries + 1]

\* enqueue(topic, data, context, { retry: true, retryStrategy })
Enqueue(retryStrategy, isWorker) ==
  /\ job = [op |-> "none"]
  /\ job' = enqueue([op |-> "job", isWorker |-> isWorker, retry |-> TRUE,
                     retryStrategy |-> "", state |-> "", attempts |-> 0,
                     delay |-> 0, via |-> "", runs |-> 0, retries |-> 0],
                    0, NoDelay, TRUE, retryStrategy)
  /\ UNCHANGED <<keys, entity, store, lastCall, transactLimit, txVars, svcVars,
                 calc, mig, pub>>

\* Worker.work on the queued job: the handler throws and, the job having
\* retry set, retry() runs
Work ==
  /\ job.op = "job"
  /\ job.state = "queued"
  /\ job.runs < MaxRuns
  /\ job' = retry([job EXCEPT !.runs = job.runs + 1])
  /\ UNCHANGED <<keys, entity, store, lastCall, transactLimit, txVars, svcVars,
                 calc, mig, pub>>

NextWorker ==
  \/ \E retryStrategy \in Strategies, isWorker \in BOOLEAN :
       Enqueue(retryStrategy, isWorker)
  \/ Work

SpecWorker == InitCtor /\ [][NextWorker]_vars

(***************************************************************************)
(* C28  Job retry is bounded for every strategy: a job with retry set      *)
(* whose handler fails on every run is re-enqueued with attempts increased *)
(* by one each time and with the delay of the strategy's table, and after  *)
(* a finite number of re-runs (4 for equal, 120 for stepped, 20 for        *)
(* steppedQuick, 19 for steppedLong, no more than the longest table for    *)
(* any other name) it is in the morgue and never run again, inside and     *)
(* outside the worker context.                                             *)
(***************************************************************************)
LongestTable == 120

RetryLimit(strategy) ==
  CASE strategy = "equal" -> 4
    [] strategy = "stepped" -> LongestTable
    [] strategy = "steppedQuick" -> 20
    [] strategy = "steppedLong" -> 19
    [] OTHER -> LongestTable

JobRetryBounded ==
  job.op = "job" =>
    /\ job.attempts = job.runs
    /\ job.retries <= RetryLimit(job.retryStrategy)
    /\ (job.state = "queued" /\ job.attempts > 0) =>
         /\ job.retries = job.attempts
         /\ job.delay > 0
         /\ job.via = "stateMachine"
    /\ job.state = "morgue" =>
         /\ job.retries = job.runs - 1
         /\ job.retryStrategy \in {"equal", "stepped", "steppedQuick", "steppedLong"} =>
              job.retries = RetryLimit(job.retryStrategy)

\* what the code does give: the bound holds for every strategy but exponential
JobRetryBoundedTables == job.op = "job" /\ job.retryStrategy # "exponential" => JobRetryBounded

\* a stepped job is buried after its 121st run
JobRetryBoundedTablesWitness ==
  /\ job.op = "job"
  /\ job.retryStrategy = "stepped"
  /\ job.state = "morgue"
  /\ job.runs = LongestTable + 1

\* an exponential job inside the worker is run again at once, without end
ExponentialUnbounded ==
  /\ job.op = "job"
  /\ job.retryStrategy = "exponential"
  /\ job.isWorker
  /\ job.state = "queued"
  /\ job.via = "work"
  /\ job.delay = 0
  /\ job.runs = MaxRuns

(***************************************************************************)
(* SpecMigrator: migrate called again and again on one list of migrations, *)
(* the runs and the puts of createMigration succeeding or failing.         *)
(***************************************************************************)
\* context.migrations, by name
Migrations == <<"m1", "m2", "m3">>

\* the migrate calls the model follows
MaxMigrates == 3

\* a variant of differenceWith that drops nothing
differenceWithNone(array, values) == array

\* _differenceWith(migrations, previousMigrations, same name): the migrations
\* whose name no previous migration has, in their order
differenceWith(array, values) == SelectSeq(array, LAMBDA name : name \notin values)

\* allMigrations(dynamo): the names of the items under root#migrations
allMigrations(recorded) == recorded

\* the first call: the table holds the records of earlier deployments
FirstMigrate(recorded) ==
  /\ mig = [op |-> "none"]
  /\ mig' = [op |-> "migrate", call |-> 1, recorded |-> recorded,
             initial |-> recorded, completed |-> {},
             previous |-> allMigrations(recorded),
             pending |-> differenceWith(Migrations, allMigrations(recorded)),
             ran |-> <<>>, failed |-> FALSE, rerun |-> FALSE,
             pc |-> IF differenceWith(Migrations, allMigrations(recorded)) = <<>>
                      THEN "done" ELSE "run"]
  /\ UNCHANGED <<keys, entity, store, lastCall, transactLimit, txVars, svcVars,
                 calc, job, pub>>

\* a later call of migrate, after the previous call has returned
Migrate ==
  /\ mig.op = "migrate"
  /\ mig.pc = "done"
  /\ mig.call < MaxMigrates
  /\ LET pending == differenceWith(Migrations, allMigrations(mig.recorded))
     IN mig' = [mig EXCEPT !.call = @ + 1,
                           !.previous = allMigrations(mig.recorded),
                           !.pending = pending, !.ran = <<>>, !.failed = FALSE,
                           !.pc = IF pending = <<>> THEN "done" ELSE "run"]
  /\ UNCHANGED <<keys, entity, store, lastCall, transactLimit, txVars, svcVars,
                 calc, job, pub>>

\* `await run(context)`: it returns, or it throws and migrate returns
Run(ok) ==
  /\ mig.op = "migrate"
  /\ mig.pc = "run"
  /\ LET name == Head(mig.pending)
     IN mig' = [mig EXCEPT !.ran = Append(@, name),
                           !.rerun = @ \/ name \in mig.recorded,
                           !.completed = IF ok THEN @ \cup {name} ELSE @,
                           !.failed = ~ok,
                           !.pc = IF ok THEN "record" ELSE "done"]
  /\ UNCHANGED <<keys, entity, store, lastCall, transactLimit, txVars, svcVars,
                 calc, job, pub>>

\* `await createMigration(name, dynamo)`: the put writes the record and the
\* loop goes on, or it throws and migrate rejects
CreateMigration(ok) ==
  /\ mig.op = "migrate"
  /\ mig.pc = "record"
  /\ mig' = IF ok
              THEN [mig EXCEPT !.recorded = @ \cup {Head(mig.pending)},
                               !.pending = Tail(@),
                               !.pc = IF Tail(mig.pending) = <<>> THEN "done" ELSE "run"]
              ELSE [mig EXCEPT !.pc = "done"]
  /\ UNCHANGED <<keys, entity, store, lastCall, transactLimit, txVars, svcVars,
                 calc, job, pub>>

NextMigrator ==
  \/ \E recorded \in SUBSET Range(Migrations) : FirstMigrate(recorded)
  \/ Migrate
  \/ \E ok \in BOOLEAN : Run(ok)
  \/ \E ok \in BOOLEAN : CreateMigration(ok)

SpecMigrator == InitCtor /\ [][NextMigrator]_vars

(***************************************************************************)
(* C29  Migration ordering: migrate runs the pending migrations (those     *)
(* whose name is not recorded) in their listed order; a migration is       *)
(* recorded only after its run completed without error; when a run fails,  *)
(* that migration is not recorded and no later one is run or recorded; a   *)
(* recorded migration is never run again by a later migrate call.          *)
(***************************************************************************)
\* s is a prefix of t
IsPrefix(s, t) == Len(s) <= Len(t) /\ SubSeq(t, 1, Len(s)) = s

MigrationOrder ==
  mig.op = "migrate" =>
    /\ IsPrefix(mig.ran, SelectSeq(Migrations, LAMBDA name : name \notin mig.previous))
    /\ mig.recorded \ mig.initial \subseteq mig.completed
    /\ mig.failed =>
         /\ mig.pc = "done"
         /\ mig.ran[Len(mig.ran)] \notin mig.recorded
         /\ \A i \in 1..Len(Migrations) :
              (\E j \in 1..(i - 1) : Migrations[j] = mig.ran[Len(mig.ran)]) =>
                Migrations[i] \notin (mig.recorded \ mig.previous)
    /\ ~mig.rerun
    /\ Range(mig.ran) \cap mig.previous = {}

\* the second call runs m2 again after its run failed in the first call,
\* and goes on with m3
MigrationOrderWitness ==
  /\ mig.op = "migrate"
  /\ mig.call = 2
  /\ mig.initial = {}
  /\ mig.previous = {"m1"}
  /\ mig.ran = <<"m2", "m3">>
  /\ mig.recorded = {"m1", "m2"}
  /\ mig.pc = "record"

(***************************************************************************)
(* SpecPublish: publishChange and withSilentPublish on one context.        *)
(***************************************************************************)
\* the publishChange calls the model follows
MaxPublishes == 4

\* what follows `await op()`: the assignment `context.silencePublish = false`
\* is reached only when op returned
afterOp(silencePublish, threw) == IF threw THEN silencePublish ELSE FALSE

\* the context before the first call: silencePublish is not set; last is the
\* outcome of the latest publishChange since withSilentPublish began or ended
NewContext(isWorker) ==
  [op |-> "context", isWorker |-> isWorker, silencePublish |-> FALSE,
   within |-> FALSE, finished |-> "none", calls |-> 0, delivered |-> 0,
   inside |-> 0, last |-> "none"]

Context(isWorker) ==
  /\ pub = [op |-> "none"]
  /\ pub' = NewContext(isWorker)
  /\ UNCHANGED <<keys, entity, store, lastCall, transactLimit, txVars, svcVars,
                 calc, job, mig>>

\* withSilentPublish(context, op) up to `await op()`
WithSilentPublish ==
  /\ pub.op = "context"
  /\ ~pub.within
  /\ pub' = [pub EXCEPT !.silencePublish = TRUE, !.within = TRUE, !.last = "none"]
  /\ UNCHANGED <<keys, entity, store, lastCall, transactLimit, txVars, svcVars,
                 calc, job, mig>>

\* op settles: it returned, or it threw and withSilentPublish rejects
OpSettles(threw) ==
  /\ pub.op = "context"
  /\ pub.within
  /\ pub' = [pub EXCEPT !.silencePublish = afterOp(pub.silencePublish, threw),
                        !.within = FALSE, !.last = "none",
                        !.finished = IF threw THEN "threw" ELSE "returned"]
  /\ UNCHANGED <<keys, entity, store, lastCall, transactLimit, txVars, svcVars,
                 calc, job, mig>>

\* publishChange(entity, context): nothing when silenced, enqueued outside
\* the worker, published inside it
PublishChange ==
  /\ pub.op = "context"
  /\ pub.calls < MaxPublishes
  /\ pub' = [pub EXCEPT
               !.calls = @ + 1,
               !.last = IF pub.silencePublish THEN "dropped"
                        ELSE IF ~pub.isWorker THEN "enqueued" ELSE "published",
               !.delivered = IF pub.silencePublish THEN @ ELSE @ + 1,
               !.inside = IF pub.within /\ ~pub.silencePublish THEN @ + 1 ELSE @]
  /\ UNCHANGED <<keys, entity, store, lastCall, transactLimit, txVars, svcVars,
                 calc, job, mig>>

NextPublish ==
  \/ \E isWorker \in BOOLEAN : Context(isWorker)
  \/ WithSilentPublish
  \/ \E threw \in BOOLEAN : OpSettles(threw)
  \/ PublishChange

SpecPublish == InitCtor /\ [][NextPublish]_vars

(***************************************************************************)
(* C30  Silenced publishing is always restored: while the operation given  *)
(* to withSilentPublish runs, publishChange publishes and enqueues nothing *)
(* for that context; once withSilentPublish has finished, whether the      *)
(* operation completed or threw, context.silencePublish is false again and *)
(* later publishChange calls are delivered.                                *)
(***************************************************************************)
SilenceRestored ==
  pub.op = "context" =>
    /\ pub.inside = 0
    /\ pub.within => pub.silencePublish
    /\ ~pub.within =>
         /\ ~pub.silencePublish
         /\ pub.last # "dropped"

\* what the code does give: the flag is restored when the operation returned
SilenceRestoredOnReturn ==
  (pub.op = "context" /\ pub.finished # "threw") => SilenceRestored

SilenceRestoredOnReturnWitness ==
  /\ pub.op = "context"
  /\ pub.finished = "returned"
  /\ ~pub.within
  /\ pub.last = "published"
  /\ pub.calls = 2 /\ pub.delivered = 1

\* after an operation that threw, a publishChange is dropped
SilenceStuck ==
  /\ pub.op = "context"
  /\ pub.finished = "threw"
  /\ ~pub.within
  /\ pub.silencePublish
  /\ pub.last = "dropped"

====
